---- MODULE Spec2Model ----
(***************************************************************************)
(* A model of the skills synchronisation core: the content hasher and the  *)
(* lock store of local-lock.ts, the sync run of sync.ts and the install    *)
(* from the lock of install.ts.                                            *)
(*                                                                         *)
(* Strings that the code compares, sorts or feeds to the hash are          *)
(* sequences of UTF-16 code units (numbers): 97 is "a", 47 is "/".         *)
(* Seven specifications share the variables; each leaves the variables of   *)
(* the other components at their initial values.                           *)
(*   SpecHash  computeSkillFolderHash / collectFiles over directory trees  *)
(*   SpecLock  readLocalLock / writeLocalLock / addSkillToLocalLock / ...  *)
(*   Spec      one run of runSync against a project directory              *)
(*   SpecRerun runSync run twice in a row against a project directory      *)
(*   SpecDiscover    discoverNodeModuleSkills over dependency directories  *)
(*   SpecConcurrent  two addSkillToLocalLock calls in flight on one file   *)
(*   SpecInstall     one run of runInstallFromLock                         *)
(***************************************************************************)
EXTENDS Integers, Sequences, FiniteSets, TLC

VARIABLES
    \* ---- content hasher (SpecHash)
    tree,        \* the hashed directory: relative path (sequence of names) -> file bytes
    hpc,         \* "idle" | "collecting" | "done"
    tasks,       \* readdir / readFile operations issued and not yet completed
    files,       \* collectFiles' results array, in the order of the pushes
    digest,      \* result of the last completed computeSkillFolderHash call
    prevDigest,  \* result of the completed call before it
    lastOp       \* what happened to the tree between those two calls

VARIABLES
    \* ---- lock store (SpecLock, Spec)
    lockFile,    \* skills-lock.json: [exists, text], the text a sequence of lines
    lockOrigin,  \* how the file's present content came about, and the lock it denotes
    ret,         \* what the last lock store call returned
    lastCall     \* the last lock store call

VARIABLES
    \* ---- the project directory a sync run works on (Spec)
    folders,         \* the skill folders under node_modules: path -> [skill, tree, readable]
    \* ---- one run of runSync
    pc,              \* where the run stands
    runNo,           \* the runs started so far
    options,         \* SyncOptions: [agent, yes, force]
    installedAgents, \* what detectInstalledAgents returns in this run
    discoveredSkills,
    localLock,       \* the lock read in step 2
    toInstall,
    upToDate,
    currentHashes,   \* skill path -> the currentHash step 2 computed for it
    targetAgents,
    results,
    idx,             \* the index of the loop the run is in
    lockFailures,    \* names whose step 6 hash or lock write threw
    userCancelled,   \* a prompt of this run was cancelled or declined
    outcome,         \* how the run ended ("running" until then)
    lockAtStart,     \* the lock file when the run started
    prevClean,       \* the run before installed and recorded all it had to
    report           \* what step 7 displayed and tracked

VARIABLES
    \* ---- discovery (SpecDiscover)
    nodeModules, \* the dependency directory: [present, leaves, unreadable]
    dpc,         \* "idle" | "running" | "returned"
    dtasks,      \* the async functions of discoverNodeModuleSkills that have not returned
    skillsFound  \* the skills array, in the order of the pushes

svars == <<folders, pc, runNo, options, installedAgents, discoveredSkills, localLock,
           toInstall, upToDate, currentHashes, targetAgents, results, idx, lockFailures,
           userCancelled, outcome, lockAtStart, prevClean, report>>

VARIABLES
    \* ---- two addSkillToLocalLock calls in flight at once (SpecConcurrent)
    ops,         \* caller -> [pc, skillName, entry, lock]: where its call stands
    log          \* the reads and writes of the file, in order: [caller, step, file]

VARIABLES
    \* ---- one run of runInstallFromLock (SpecInstall)
    ipc,              \* "idle" | "adding" | "returned"
    skillEntries,     \* Object.entries(lock.skills)
    nodeModuleSkills, \* the names with sourceType 'node_modules'
    bySource,         \* the Map source -> {sourceType, skills}, in insertion order
    iidx,             \* the next group of bySource to install
    calls             \* the runAdd and runSync calls made, in order

hvars == <<tree, hpc, tasks, files, digest, prevDigest, lastOp>>

lvars == <<lockFile, lockOrigin, ret, lastCall>>

dvars == <<nodeModules, dpc, dtasks, skillsFound>>

cvars == <<ops, log>>

ivars == <<ipc, skillEntries, nodeModuleSkills, bySource, iidx, calls>>

vars == <<hvars, lvars, svars, dvars, cvars, ivars>>

\* Nothing was displayed or tracked: step 7 was not reached.
NoReport == [shown |-> FALSE, synced |-> 0, failed |-> 0, skillCount |-> 0, successCount |-> 0]

(***************************************************************************)
(* Sequences of code units                                                 *)
(***************************************************************************)
RECURSIVE Flatten(_)
Flatten(ss) == IF ss = <<>> THEN <<>> ELSE Head(ss) \o Flatten(Tail(ss))

\* Array.prototype.join("/") on a list of path segments.
RECURSIVE JoinSlash(_)
JoinSlash(segs) ==
    IF segs = <<>> THEN <<>>
    ELSE IF Len(segs) = 1 THEN segs[1]
    ELSE segs[1] \o <<47>> \o JoinSlash(Tail(segs))

\* s.split('\\').join('/'): every backslash (92) becomes a slash (47).
SplitBackslashJoinSlash(s) == [i \in 1..Len(s) |-> IF s[i] = 92 THEN 47 ELSE s[i]]

\* path.relative(baseDir, fullPath) followed by the separator normalisation.
RelativePath(p) == SplitBackslashJoinSlash(JoinSlash(p))

\* hash.update(string) feeds the UTF-8 encoding of the string.
Utf8(c) ==
    IF c < 128 THEN <<c>>
    ELSE IF c < 2048 THEN <<192 + (c \div 64), 128 + (c % 64)>>
    ELSE <<224 + (c \div 4096), 128 + ((c \div 64) % 64), 128 + (c % 64)>>

Utf8String(s) == Flatten([i \in 1..Len(s) |-> Utf8(s[i])])

(***************************************************************************)
(* String.prototype.localeCompare.  ECMA-262 requires the result 0 for     *)
(* Strings that are canonically equivalent in Unicode, also when their     *)
(* code units differ: U+212B ANGSTROM SIGN (8491) is canonically           *)
(* equivalent to U+00C5 (197).  Strings that are not equivalent are in a   *)
(* fixed total order; code-unit order of the collation keys stands for it. *)
(* Characters the collation ignores at every level, such as U+00AD SOFT    *)
(* HYPHEN (173), have no part in the key.                                  *)
(***************************************************************************)
CanonicalUnit(c) == IF c = 8491 THEN 197 ELSE c

IsIgnorable(c) == c = 173

CollationKey(s) ==
    LET kept == SelectSeq(s, LAMBDA c : ~IsIgnorable(c))
    IN  [i \in 1..Len(kept) |-> CanonicalUnit(kept[i])]

RECURSIVE LexCompare(_, _)
LexCompare(a, b) ==
    IF a = <<>> /\ b = <<>> THEN 0
    ELSE IF a = <<>> THEN -1
    ELSE IF b = <<>> THEN 1
    ELSE IF a[1] < b[1] THEN -1
    ELSE IF a[1] > b[1] THEN 1
    ELSE LexCompare(Tail(a), Tail(b))

LocaleCompare(a, b) == LexCompare(CollationKey(a), CollationKey(b))

\* Array.prototype.sort is stable: elements that compare 0 keep their order.
SortInsert(x, s) ==
    LET k == Cardinality({i \in 1..Len(s) : LocaleCompare(s[i].relativePath, x.relativePath) <= 0})
    IN  SubSeq(s, 1, k) \o <<x>> \o SubSeq(s, k + 1, Len(s))

RECURSIVE SortByRelativePath(_)
SortByRelativePath(fs) ==
    IF fs = <<>> THEN <<>>
    ELSE SortInsert(fs[Len(fs)], SortByRelativePath(SubSeq(fs, 1, Len(fs) - 1)))

(***************************************************************************)
(* Directory trees                                                         *)
(***************************************************************************)
DotGit == <<46, 103, 105, 116>>
NodeModules == <<110, 111, 100, 101, 95, 109, 111, 100, 117, 108, 101, 115>>

\* The files a tree of the model may hold (regular files; directories are
\* the proper prefixes of their paths).
FileUniverse ==
    { << <<97, 98>> >>,                 \* ab
      << <<97, 98, 97>> >>,             \* aba
      << <<98, 97>> >>,                 \* ba
      << <<97>> >>,                     \* a
      << <<97, 173>> >>,                \* a U+00AD
      << <<197>> >>,                    \* U+00C5
      << <<8491>> >>,                   \* U+212B
      << <<97, 92, 98>> >>,             \* a\b, one file name
      << <<97>>, <<98>> >>,             \* a/b
      << DotGit, <<97, 98>> >>,         \* .git/ab
      << DotGit >>,                     \* .git, a regular file (a gitlink)
      << <<97>>, NodeModules, <<98>> >> \* a/node_modules/b
    }

Contents == { <<>>, <<97>>, <<98>>, <<97, 194, 173>>, <<194, 173, 97>> }

MaxFiles == 2

IsPrefix(d, p) == Len(d) <= Len(p) /\ SubSeq(p, 1, Len(d)) = d

\* No file of the set is a directory of another.
IsTree(S) == \A p, q \in S : p # q => ~IsPrefix(p, q)

Trees ==
    UNION { [S -> Contents] :
              S \in { T \in SUBSET FileUniverse : Cardinality(T) <= MaxFiles /\ IsTree(T) } }

\* readdir(dir, { withFileTypes: true }): the names directly under dir.
Readdir(t, dir) ==
    { [name |-> p[Len(dir) + 1], isDirectory |-> Len(p) > Len(dir) + 1] :
        p \in { q \in DOMAIN t : IsPrefix(dir, q) /\ Len(q) > Len(dir) } }

\* collectFiles does not descend into a directory named .git or node_modules.
IsExcludedName(name) == name = DotGit \/ name = NodeModules

\* The files collectFiles reaches: no directory on the way is excluded.
IsHashed(p) == \A i \in 1..(Len(p) - 1) : ~IsExcludedName(p[i])

\* What the callback of collectFiles' entries.map issues for one entry.
EntryTasks(dir, entry) ==
    IF entry.isDirectory
    THEN IF IsExcludedName(entry.name)
         THEN {}
         ELSE { [op |-> "readdir", path |-> Append(dir, entry.name)] }
    ELSE { [op |-> "readFile", path |-> Append(dir, entry.name)] }

\* hash.update(relativePath); hash.update(content) for each file in order.
FeedHash(fs) ==
    Flatten([i \in 1..Len(fs) |-> Utf8String(fs[i].relativePath) \o fs[i].content])

\* SHA-256 is taken as injective: the digest is the byte sequence fed.
Sha256Hex(bytes) == [sha256 |-> bytes]

NoDigest == [sha256 |-> <<0>>]

(***************************************************************************)
(* Lock store: skills-lock.json                                            *)
(***************************************************************************)
CURRENT_VERSION == 1

NoEntry == [source |-> "", sourceType |-> "", computedHash |-> NoDigest]

\* The text of the file, line by line.  An entry's five lines are one line here.
Line(t, version, name, entry) == [t |-> t, version |-> version, name |-> name, entry |-> entry]
LOpen == Line("{", 0, <<>>, NoEntry)
LVersion(n) == Line("version:number", n, <<>>, NoEntry)
LVersionString(n) == Line("version:string", n, <<>>, NoEntry)
LSkillsOpen == Line("skills:{", 0, <<>>, NoEntry)
LSkillsNull == Line("skills:null", 0, <<>>, NoEntry)
LEntry(name, entry) == Line("entry", 0, name, entry)
LSkillsClose == Line("}skills", 0, <<>>, NoEntry)
LClose == Line("}", 0, <<>>, NoEntry)
LNewline == Line("newline", 0, <<>>, NoEntry)
LConflict(marker) == Line(marker, 0, <<>>, NoEntry)

\* A skills object: the own properties in insertion order.
HasSkill(skills, name) == \E i \in 1..Len(skills) : skills[i].name = name

GetSkill(skills, name) ==
    LET i == CHOOSE j \in 1..Len(skills) : skills[j].name = name IN skills[i].entry

ProtoName == <<95, 95, 112, 114, 111, 116, 111, 95, 95>>      \* "__proto__"

\* A property name that is an array index: the decimal digits of an integer
\* below 2^32 - 1 without a leading zero ("9", "10"; not "01").
IsArrayIndex(name) ==
    /\ Len(name) \in 1..9
    /\ \A i \in 1..Len(name) : name[i] \in 48..57
    /\ (Len(name) > 1 => name[1] # 48)

RECURSIVE IndexValue(_)
IndexValue(name) ==
    IF name = <<>> THEN 0
    ELSE 10 * IndexValue(SubSeq(name, 1, Len(name) - 1)) + (name[Len(name)] - 48)

\* The own property keys of an object are enumerated with the array indices
\* first, in ascending numeric order, then the other names in the order in
\* which they were created.
KeyBefore(a, b) ==
    IF IsArrayIndex(a)
    THEN (IsArrayIndex(b) => IndexValue(a) < IndexValue(b))
    ELSE ~IsArrayIndex(b)

IsObjectOrder(skills) ==
    \A i, j \in 1..Len(skills) :
        (i < j /\ IsArrayIndex(skills[j].name)) =>
            (IsArrayIndex(skills[i].name)
             /\ IndexValue(skills[i].name) < IndexValue(skills[j].name))

\* CreateDataProperty(skills, name, entry), as JSON.parse defines a member:
\* an existing property keeps its place.
DefineSkill(skills, name, entry) ==
    IF HasSkill(skills, name)
    THEN [i \in 1..Len(skills) |->
            IF skills[i].name = name THEN [name |-> name, entry |-> entry] ELSE skills[i]]
    ELSE LET n == Cardinality({i \in 1..Len(skills) : KeyBefore(skills[i].name, name)})
         IN  SubSeq(skills, 1, n) \o <<[name |-> name, entry |-> entry]>>
             \o SubSeq(skills, n + 1, Len(skills))

\* skills[name] = entry.  Without an own property of that name, the name
\* "__proto__" reaches the setter inherited from Object.prototype: the
\* prototype of skills becomes entry, and skills gets no own property.
SetSkill(skills, name, entry) ==
    IF name = ProtoName /\ ~HasSkill(skills, name)
    THEN skills
    ELSE DefineSkill(skills, name, entry)

\* name in skills: own properties and those of Object.prototype.
InSkills(skills, name) == HasSkill(skills, name) \/ name = ProtoName

\* delete skills[name]
DeleteSkill(skills, name) == SelectSeq(skills, LAMBDA s : s.name # name)

SkillNames(skills) == { skills[i].name : i \in 1..Len(skills) }

createEmptyLocalLock == [version |-> CURRENT_VERSION, skills |-> <<>>]

\* A lock up to the order of its keys.
AsMap(lock) ==
    [version |-> lock.version,
     skills |-> [n \in SkillNames(lock.skills) |-> GetSkill(lock.skills, n)]]

\* JSON.parse of the text.  A member given twice keeps its last value.
NothingParsed ==
    [versionKind |-> "missing", version |-> 0, skillsKind |-> "missing", skills |-> <<>>]

SyntaxError == [ok |-> FALSE, value |-> NothingParsed]

RECURSIVE ParseFrom(_, _, _, _)
ParseFrom(text, i, st, acc) ==
    IF i > Len(text)
    THEN IF st = "end" THEN [ok |-> TRUE, value |-> acc] ELSE SyntaxError
    ELSE LET l == text[i] IN
         CASE st = "start" /\ l.t = "{" -> ParseFrom(text, i + 1, "top", acc)
           [] st = "top" /\ l.t = "version:number" ->
                ParseFrom(text, i + 1, "top",
                          [acc EXCEPT !.versionKind = "number", !.version = l.version])
           [] st = "top" /\ l.t = "version:string" ->
                ParseFrom(text, i + 1, "top",
                          [acc EXCEPT !.versionKind = "string", !.version = l.version])
           [] st = "top" /\ l.t = "skills:{" ->
                ParseFrom(text, i + 1, "skills",
                          [acc EXCEPT !.skillsKind = "object", !.skills = <<>>])
           [] st = "top" /\ l.t = "skills:null" ->
                ParseFrom(text, i + 1, "top",
                          [acc EXCEPT !.skillsKind = "null", !.skills = <<>>])
           [] st = "skills" /\ l.t = "entry" ->
                ParseFrom(text, i + 1, "skills",
                          [acc EXCEPT !.skills = DefineSkill(acc.skills, l.name, l.entry)])
           [] st = "skills" /\ l.t = "}skills" -> ParseFrom(text, i + 1, "top", acc)
           [] st = "top" /\ l.t = "}" -> ParseFrom(text, i + 1, "end", acc)
           [] st = "end" /\ l.t = "newline" -> ParseFrom(text, i + 1, "end", acc)
           [] OTHER -> SyntaxError

JSONParse(text) == ParseFrom(text, 1, "start", NothingParsed)

\* Object.keys(skills).sort(): ascending by UTF-16 code units.
KeyInsert(k, s) ==
    LET n == Cardinality({i \in 1..Len(s) : LexCompare(s[i], k) <= 0})
    IN  SubSeq(s, 1, n) \o <<k>> \o SubSeq(s, n + 1, Len(s))

\* A variant of Object.keys(skills).sort() that leaves the keys as they are.
KeysUnsorted(ks) == ks

RECURSIVE SortKeys(_)
SortKeys(ks) ==
    IF ks = <<>> THEN <<>>
    ELSE KeyInsert(ks[Len(ks)], SortKeys(SubSeq(ks, 1, Len(ks) - 1)))

ObjectKeys(skills) == [i \in 1..Len(skills) |-> skills[i].name]

\* JSON.stringify({version, skills}, null, 2)
JSONStringify(lock) ==
    <<LOpen, LVersion(lock.version), LSkillsOpen>>
    \o [i \in 1..Len(lock.skills) |-> LEntry(lock.skills[i].name, lock.skills[i].entry)]
    \o <<LSkillsClose, LClose>>

NoFile == [exists |-> FALSE, text |-> <<>>]

FileWith(text) == [exists |-> TRUE, text |-> text]

\* A variant of readLocalLock without the test on the version's age.
readLocalLockAnyVersion(file) ==
    IF ~file.exists THEN createEmptyLocalLock
    ELSE LET parsed == JSONParse(file.text) IN
         IF ~parsed.ok THEN createEmptyLocalLock
         ELSE IF parsed.value.versionKind # "number" \/ parsed.value.skillsKind # "object"
              THEN createEmptyLocalLock
         ELSE [version |-> parsed.value.version, skills |-> parsed.value.skills]

\* A variant of readLocalLock that finds no lock whatever the file holds.
readLocalLockAsAbsent(file) == createEmptyLocalLock

readLocalLock(file) ==
    IF ~file.exists THEN createEmptyLocalLock
    ELSE LET parsed == JSONParse(file.text) IN
         IF ~parsed.ok THEN createEmptyLocalLock
         ELSE IF parsed.value.versionKind # "number" \/ parsed.value.skillsKind # "object"
              THEN createEmptyLocalLock
         ELSE IF parsed.value.version < CURRENT_VERSION THEN createEmptyLocalLock
         ELSE [version |-> parsed.value.version, skills |-> parsed.value.skills]

\* for (const key of keys) sortedSkills[key] = skills[key]
RECURSIVE CopySkills(_, _, _)
CopySkills(keys, skills, sortedSkills) ==
    IF keys = <<>> THEN sortedSkills
    ELSE CopySkills(Tail(keys), skills,
                    SetSkill(sortedSkills, Head(keys), GetSkill(skills, Head(keys))))

\* The content writeLocalLock(lock) gives the file.
writeLocalLock(lock) ==
    LET keys == SortKeys(ObjectKeys(lock.skills))
        sortedSkills == CopySkills(keys, lock.skills, <<>>)
        sorted == [version |-> lock.version, skills |-> sortedSkills]
    IN  FileWith(Append(JSONStringify(sorted), LNewline))

\* The lock addSkillToLocalLock(skillName, entry) writes, given the file it reads.
addSkillToLocalLock(file, skillName, entry) ==
    LET lock == readLocalLock(file)
    IN  writeLocalLock([lock EXCEPT !.skills = SetSkill(lock.skills, skillName, entry)])

\* removeSkillFromLocalLock(skillName): the file afterwards and the value returned.
removeSkillFromLocalLock(file, skillName) ==
    LET lock == readLocalLock(file) IN
    IF ~InSkills(lock.skills, skillName)
    THEN [file |-> file, returns |-> FALSE]
    ELSE [file |-> writeLocalLock([lock EXCEPT !.skills = DeleteSkill(lock.skills, skillName)]),
          returns |-> TRUE]

NoOptions == [agent |-> <<>>, yes |-> FALSE, force |-> FALSE]

\* No node_modules directory.
NoNodeModules == [present |-> FALSE, leaves |-> {}, unreadable |-> {}]

\* The callers of addSkillToLocalLock at work on one project at a time.
Callers == {1, 2}

\* A call not yet made.
NoOp == [pc |-> "idle", skillName |-> <<>>, entry |-> NoEntry, lock |-> createEmptyLocalLock]

(***************************************************************************)
(* SpecLock: the lock store's calls, one after the other, on a file that   *)
(* starts absent, well-formed or damaged                                   *)
(***************************************************************************)
\* "a", "B", "9", "10", "__proto__"
SkillNameUniverse == { <<97>>, <<66>>, <<57>>, <<49, 48>>, ProtoName }

SampleEntries ==
    { [source |-> "pkg", sourceType |-> "node_modules", computedHash |-> Sha256Hex(<<97>>)],
      [source |-> "owner/repo", sourceType |-> "github", computedHash |-> Sha256Hex(<<98>>)] }

MaxEntries == 2

MaxVersion == 2

\* Every skills object with at most MaxEntries properties, in every order of
\* its keys that an object can have.
RECURSIVE SkillsOfLen(_)
SkillsOfLen(n) ==
    IF n = 0 THEN { <<>> }
    ELSE { Append(s, [name |-> k, entry |-> e]) :
             s \in SkillsOfLen(n - 1), k \in SkillNameUniverse, e \in SampleEntries }

SkillsUniverse ==
    { s \in UNION { SkillsOfLen(n) : n \in 0..MaxEntries } :
        /\ \A i, j \in 1..Len(s) : i # j => s[i].name # s[j].name
        /\ IsObjectOrder(s) }

LockUniverse == [version : 0..MaxVersion, skills : SkillsUniverse]

ReadsAs(lock) == IF lock.version >= CURRENT_VERSION THEN "valid" ELSE "old"

Origin(by, kind, lock) == [by |-> by, kind |-> kind, denotes |-> AsMap(lock)]

\* A file that holds the lines of JSON.stringify(lock), as some editor or
\* merge left them.
GivenFiles(lock) ==
    LET text == JSONStringify(lock)
        n == Len(text)
    IN  { [file |-> FileWith(text), origin |-> Origin("given", ReadsAs(lock), lock)],
          [file |-> FileWith(Append(text, LNewline)),
           origin |-> Origin("given", ReadsAs(lock), lock)],
          [file |-> FileWith(<<LOpen>> \o SubSeq(text, 3, n)),
           origin |-> Origin("given", "no version", lock)],
          [file |-> FileWith(<<LOpen, LVersionString(lock.version)>> \o SubSeq(text, 3, n)),
           origin |-> Origin("given", "version not a number", lock)],
          [file |-> FileWith(<<LOpen, LVersion(lock.version), LClose>>),
           origin |-> Origin("given", "no skills", lock)],
          [file |-> FileWith(<<LOpen, LVersion(lock.version), LSkillsNull, LClose>>),
           origin |-> Origin("given", "skills null", lock)],
          [file |-> FileWith(SubSeq(text, 1, n - 1)),
           origin |-> Origin("given", "truncated", lock)],
          [file |-> FileWith(<<>>), origin |-> Origin("given", "empty file", lock)] }

\* Two branches each added an entry at the same place: the merge left both
\* between conflict markers.
ConflictFiles(lock) ==
    { [file |-> FileWith(<<LOpen, LVersion(lock.version), LSkillsOpen, LConflict("<<<<<<<")>>
                         \o [i \in 1..Len(lock.skills) |->
                                LEntry(lock.skills[i].name, lock.skills[i].entry)]
                         \o <<LConflict("=======")>>
                         \o <<LEntry(k, e), LConflict(">>>>>>>"), LSkillsClose, LClose, LNewline>>),
       origin |-> Origin("given", "conflict markers", lock)] :
      k \in SkillNameUniverse, e \in SampleEntries }

InitialLockFiles ==
    { [file |-> NoFile, origin |-> Origin("given", "absent", createEmptyLocalLock)] }
    \cup UNION { GivenFiles(l) \cup ConflictFiles(l) :
                   l \in { m \in LockUniverse : Len(m.skills) <= 1 } }

\* What the last call was given (skillName, entry), the lock it dealt with
\* and the value it returned.
Called(lock, returns, skillName, entry) ==
    [lock |-> lock, returns |-> returns, skillName |-> skillName, entry |-> entry]

Returned(lock, returns) == Called(lock, returns, <<>>, NoEntry)

LockInit ==
    /\ ipc = "idle"
    /\ skillEntries = <<>>
    /\ nodeModuleSkills = <<>>
    /\ bySource = <<>>
    /\ iidx = 1
    /\ calls = <<>>
    /\ ops = [p \in Callers |-> NoOp]
    /\ log = <<>>
    /\ report = NoReport
    /\ nodeModules = NoNodeModules
    /\ dpc = "idle"
    /\ dtasks = {}
    /\ skillsFound = <<>>
    /\ \E f \in InitialLockFiles : lockFile = f.file /\ lockOrigin = f.origin
    /\ ret = Returned(createEmptyLocalLock, FALSE)
    /\ lastCall = "none"
    /\ tree = << >>
    /\ hpc = "idle"
    /\ tasks = {}
    /\ files = <<>>
    /\ digest = NoDigest
    /\ prevDigest = NoDigest
    /\ lastOp = "none"
    /\ folders = << >>
    /\ pc = "idle"
    /\ runNo = 0
    /\ options = NoOptions
    /\ installedAgents = <<>>
    /\ discoveredSkills = <<>>
    /\ localLock = createEmptyLocalLock
    /\ toInstall = <<>>
    /\ upToDate = <<>>
    /\ currentHashes = << >>
    /\ targetAgents = <<>>
    /\ results = <<>>
    /\ idx = 1
    /\ lockFailures = {}
    /\ userCancelled = FALSE
    /\ outcome = "running"
    /\ lockAtStart = NoFile
    /\ prevClean = FALSE

ReadLocalLock ==
    /\ ret' = Returned(readLocalLock(lockFile), FALSE)
    /\ lastCall' = "readLocalLock"
    /\ UNCHANGED <<lockFile, lockOrigin, hvars, svars, dvars, cvars, ivars>>

WriteLocalLock ==
    \E lock \in LockUniverse :
        /\ lockFile' = writeLocalLock(lock)
        /\ lockOrigin' = Origin("writeLocalLock", ReadsAs(lock), lock)
        /\ ret' = Returned(lock, FALSE)
        /\ lastCall' = "writeLocalLock"
        /\ UNCHANGED <<hvars, svars, dvars, cvars, ivars>>

AddSkillToLocalLock ==
    \E name \in SkillNameUniverse, entry \in SampleEntries :
        LET lock == readLocalLock(lockFile)
            updated == [lock EXCEPT !.skills = SetSkill(lock.skills, name, entry)]
        IN  /\ lockFile' = addSkillToLocalLock(lockFile, name, entry)
            /\ lockOrigin' = Origin("addSkillToLocalLock", ReadsAs(updated), updated)
            /\ ret' = Called(updated, FALSE, name, entry)
            /\ lastCall' = "addSkillToLocalLock"
            /\ UNCHANGED <<hvars, svars, dvars, cvars, ivars>>

RemoveSkillFromLocalLock ==
    \E name \in SkillNameUniverse :
        LET lock == readLocalLock(lockFile)
            updated == [lock EXCEPT !.skills = DeleteSkill(lock.skills, name)]
            r == removeSkillFromLocalLock(lockFile, name)
        IN  /\ lockFile' = r.file
            /\ lockOrigin' = IF r.returns
                             THEN Origin("removeSkillFromLocalLock", ReadsAs(updated), updated)
                             ELSE lockOrigin
            /\ ret' = Called(updated, r.returns, name, NoEntry)
            /\ lastCall' = "removeSkillFromLocalLock"
            /\ UNCHANGED <<hvars, svars, dvars, cvars, ivars>>

LockNext ==
    \/ ReadLocalLock
    \/ WriteLocalLock
    \/ AddSkillToLocalLock
    \/ RemoveSkillFromLocalLock

SpecLock == LockInit /\ [][LockNext]_vars

(***************************************************************************)
(* SpecConcurrent: two addSkillToLocalLock calls on one file, each an      *)
(* await readLocalLock followed by an await writeLocalLock, the awaits of  *)
(* the two calls completing in any order                                   *)
(***************************************************************************)
ConcurrentInit ==
    /\ LockInit

\* const lock = await readLocalLock(cwd)
AddRead(p) ==
    /\ ops[p].pc = "idle"
    /\ \E name \in SkillNameUniverse, entry \in SampleEntries :
          ops' = [ops EXCEPT ![p] = [pc |-> "read", skillName |-> name, entry |-> entry,
                                     lock |-> readLocalLock(lockFile)]]
    /\ log' = Append(log, [caller |-> p, step |-> "read", file |-> lockFile])
    /\ UNCHANGED <<lvars, hvars, svars, dvars, ivars>>

\* lock.skills[skillName] = entry; await writeLocalLock(lock, cwd)
AddWrite(p) ==
    /\ ops[p].pc = "read"
    /\ LET lock == ops[p].lock
           updated == [lock EXCEPT !.skills = SetSkill(lock.skills, ops[p].skillName, ops[p].entry)]
       IN  /\ lockFile' = writeLocalLock(updated)
           /\ lockOrigin' = Origin("addSkillToLocalLock", ReadsAs(updated), updated)
           /\ ret' = Called(updated, FALSE, ops[p].skillName, ops[p].entry)
           /\ ops' = [ops EXCEPT ![p] = [@ EXCEPT !.pc = "written", !.lock = updated]]
    /\ lastCall' = "addSkillToLocalLock"
    /\ log' = Append(log, [caller |-> p, step |-> "write", file |-> lockFile'])
    /\ UNCHANGED <<hvars, svars, dvars, ivars>>

ConcurrentNext ==
    \/ \E p \in Callers : AddRead(p)
    \/ \E p \in Callers : AddWrite(p)

SpecConcurrent == ConcurrentInit /\ [][ConcurrentNext]_vars

(***************************************************************************)
(* SpecHash: one collectFiles traversal at a time, its directory listings  *)
(* and file reads completing in any order                                  *)
(***************************************************************************)
HashInit ==
    /\ ipc = "idle"
    /\ skillEntries = <<>>
    /\ nodeModuleSkills = <<>>
    /\ bySource = <<>>
    /\ iidx = 1
    /\ calls = <<>>
    /\ ops = [p \in Callers |-> NoOp]
    /\ log = <<>>
    /\ report = NoReport
    /\ nodeModules = NoNodeModules
    /\ dpc = "idle"
    /\ dtasks = {}
    /\ skillsFound = <<>>
    /\ lockFile = NoFile
    /\ lockOrigin = Origin("given", "absent", createEmptyLocalLock)
    /\ ret = Returned(createEmptyLocalLock, FALSE)
    /\ lastCall = "none"
    /\ tree \in Trees
    /\ hpc = "idle"
    /\ tasks = {}
    /\ files = <<>>
    /\ digest = NoDigest
    /\ prevDigest = NoDigest
    /\ lastOp = "none"
    /\ folders = << >>
    /\ pc = "idle"
    /\ runNo = 0
    /\ options = NoOptions
    /\ installedAgents = <<>>
    /\ discoveredSkills = <<>>
    /\ localLock = createEmptyLocalLock
    /\ toInstall = <<>>
    /\ upToDate = <<>>
    /\ currentHashes = << >>
    /\ targetAgents = <<>>
    /\ results = <<>>
    /\ idx = 1
    /\ lockFailures = {}
    /\ userCancelled = FALSE
    /\ outcome = "running"
    /\ lockAtStart = NoFile
    /\ prevClean = FALSE

\* A change of the tree that no call has seen yet, and what it is once seen.
\* "excluded" tells that the file is named .git or node_modules or lies
\* under a directory of that name.
PendingOps ==
    { "mutating", "editing", "adding", "deleting",
      "editing excluded", "adding excluded", "deleting excluded" }

OpDone(op) ==
    CASE op = "editing" -> "edit"
      [] op = "adding" -> "add"
      [] op = "deleting" -> "delete"
      [] op = "editing excluded" -> "edit excluded"
      [] op = "adding excluded" -> "add excluded"
      [] op = "deleting excluded" -> "delete excluded"
      [] OTHER -> "rename"

AtOrUnderExcluded(p) == \E i \in 1..Len(p) : IsExcludedName(p[i])

OpOn(op, p) == IF AtOrUnderExcluded(p) THEN op \o " excluded" ELSE op

\* computeSkillFolderHash is called: collectFiles(skillDir, skillDir, files).
ComputeHashCall ==
    /\ hpc \in {"idle", "done"}
    /\ hpc = "done" => lastOp' = (IF lastOp = "mutating" THEN "rename"
                                  ELSE IF lastOp \in PendingOps THEN OpDone(lastOp)
                                  ELSE "rehash")
    /\ hpc = "idle" => lastOp' = lastOp
    /\ hpc' = "collecting"
    /\ tasks' = { [op |-> "readdir", path |-> <<>>] }
    /\ files' = <<>>
    /\ prevDigest' = digest
    /\ UNCHANGED <<tree, digest, lvars, svars, dvars, cvars, ivars>>

\* A readdir completes: every entry's callback runs up to its first await.
ReaddirDone ==
    /\ hpc = "collecting"
    /\ \E t \in tasks :
        /\ t.op = "readdir"
        /\ tasks' = (tasks \ {t})
                    \cup UNION { EntryTasks(t.path, e) : e \in Readdir(tree, t.path) }
    /\ UNCHANGED <<tree, hpc, files, digest, prevDigest, lastOp, lvars, svars, dvars, cvars, ivars>>

\* A readFile completes: the file is pushed onto results.
ReadFileDone ==
    /\ hpc = "collecting"
    /\ \E t \in tasks :
        /\ t.op = "readFile"
        /\ tasks' = tasks \ {t}
        /\ files' = Append(files, [relativePath |-> RelativePath(t.path),
                                   content |-> tree[t.path]])
    /\ UNCHANGED <<tree, hpc, digest, prevDigest, lastOp, lvars, svars, dvars, cvars, ivars>>

\* All of collectFiles has settled: sort, feed, digest.
ComputeHashReturn ==
    /\ hpc = "collecting"
    /\ tasks = {}
    /\ digest' = Sha256Hex(FeedHash(SortByRelativePath(files)))
    /\ hpc' = "done"
    /\ UNCHANGED <<tree, tasks, files, prevDigest, lastOp, lvars, svars, dvars, cvars, ivars>>

\* Between two calls one hashed file is renamed (moved) to another hashed
\* path, its bytes kept.
RenameFile ==
    /\ hpc = "done"
    /\ lastOp \notin PendingOps
    /\ \E p \in DOMAIN tree, q \in FileUniverse \ DOMAIN tree :
        /\ IsHashed(p) /\ IsHashed(q)
        /\ ~AtOrUnderExcluded(p) /\ ~AtOrUnderExcluded(q)
        /\ IsTree((DOMAIN tree \ {p}) \cup {q})
        /\ tree' = [r \in (DOMAIN tree \ {p}) \cup {q} |-> IF r = q THEN tree[p] ELSE tree[r]]
    /\ lastOp' = "mutating"
    /\ UNCHANGED <<hpc, tasks, files, digest, prevDigest, lvars, svars, dvars, cvars, ivars>>

\* Between two calls the bytes of one file change.
EditFile ==
    /\ hpc = "done"
    /\ lastOp \notin PendingOps
    /\ \E p \in DOMAIN tree, c \in Contents :
        /\ c # tree[p]
        /\ tree' = [tree EXCEPT ![p] = c]
        /\ lastOp' = OpOn("editing", p)
    /\ UNCHANGED <<hpc, tasks, files, digest, prevDigest, lvars, svars, dvars, cvars, ivars>>

\* Between two calls a file is added.
AddFile ==
    /\ hpc = "done"
    /\ lastOp \notin PendingOps
    /\ Cardinality(DOMAIN tree) < MaxFiles
    /\ \E q \in FileUniverse \ DOMAIN tree, c \in Contents :
        /\ IsTree(DOMAIN tree \cup {q})
        /\ tree' = [r \in DOMAIN tree \cup {q} |-> IF r = q THEN c ELSE tree[r]]
        /\ lastOp' = OpOn("adding", q)
    /\ UNCHANGED <<hpc, tasks, files, digest, prevDigest, lvars, svars, dvars, cvars, ivars>>

\* Between two calls a file is deleted.
DeleteFile ==
    /\ hpc = "done"
    /\ lastOp \notin PendingOps
    /\ \E p \in DOMAIN tree :
        /\ tree' = [r \in DOMAIN tree \ {p} |-> tree[r]]
        /\ lastOp' = OpOn("deleting", p)
    /\ UNCHANGED <<hpc, tasks, files, digest, prevDigest, lvars, svars, dvars, cvars, ivars>>

HashNext ==
    \/ ComputeHashCall
    \/ ReaddirDone
    \/ ReadFileDone
    \/ ComputeHashReturn
    \/ RenameFile
    \/ EditFile
    \/ AddFile
    \/ DeleteFile

SpecHash == HashInit /\ [][HashNext]_vars

(***************************************************************************)
(* Spec: one run of runSync                                                *)
(***************************************************************************)
SeqToSet(s) == { s[i] : i \in 1..Len(s) }

\* Every order of the elements of a finite set.
Orders(S) ==
    { o \in [1..Cardinality(S) -> S] : \A i, j \in 1..Cardinality(S) : i # j => o[i] # o[j] }

\* The agents module: Object.keys(agents), getUniversalAgents(), getNonUniversalAgents().
ValidAgents == <<"amp", "claude-code">>
UniversalAgents == <<"amp">>
NonUniversalAgents == <<"claude-code">>

\* --agent arguments, --yes, --force.
AgentArguments ==
    { <<>>, <<"claude-code">>, <<"claude-code", "claude-code">>, <<"bogus">>, <<"*", "bogus">> }

SyncOptions == [agent : AgentArguments, yes : BOOLEAN, force : BOOLEAN]

DetectedAgents == { <<>>, <<"claude-code">>, <<"amp", "claude-code">> }

\* The skills node_modules can hold.  The name is the one SKILL.md declares:
\* two packages can declare the same name.
SkillA == [name |-> <<97>>, packageName |-> "pkg-a", path |-> "node_modules/pkg-a"]
SkillB == [name |-> <<66>>, packageName |-> "@scope/pkg-b",
           path |-> "node_modules/@scope/pkg-b/skills/B"]
SkillA2 == [name |-> <<97>>, packageName |-> "pkg-c", path |-> "node_modules/pkg-c/skills/a"]
SkillUniverse == { SkillA, SkillB, SkillA2 }

MaxSkills == 2

TreeOne == (<< <<97, 98>> >> :> <<97>>)
TreeTie == (<< <<197>> >> :> <<97>>) @@ (<< <<8491>> >> :> <<98>>)

Folder(skill, t, readable) == [skill |-> skill, tree |-> t, readable |-> readable]

FolderStates(skill) ==
    { Folder(skill, TreeOne, TRUE), Folder(skill, TreeTie, TRUE), Folder(skill, TreeOne, FALSE) }

\* The digests computeSkillFolderHash can return for a tree: one for each
\* order in which collectFiles' reads can complete.
FolderDigests(t) ==
    { Sha256Hex(FeedHash(SortByRelativePath(o))) :
        o \in Orders({ [relativePath |-> RelativePath(p), content |-> t[p]] :
                         p \in { q \in DOMAIN t : IsHashed(q) } }) }

GithubEntry == [source |-> "owner/repo", sourceType |-> "github",
                computedHash |-> Sha256Hex(<<98>>)]

InitialSyncLocks ==
    { NoFile,
      FileWith(<<LOpen, LVersion(1), LSkillsOpen, LConflict("<<<<<<<"),
                 LEntry(<<97>>, GithubEntry), LConflict("======="),
                 LEntry(<<97, 98>>, GithubEntry), LConflict(">>>>>>>"),
                 LSkillsClose, LClose, LNewline>>),
      writeLocalLock([version |-> 0,
                      skills |-> << [name |-> <<97, 98>>, entry |-> GithubEntry] >>]) }
    \cup { writeLocalLock([version |-> 1,
                           skills |-> << [name |-> <<97, 98>>, entry |-> GithubEntry],
                                         [name |-> <<97>>,
                                          entry |-> [source |-> "pkg-a",
                                                     sourceType |-> "node_modules",
                                                     computedHash |-> d]] >>]) :
             d \in FolderDigests(TreeOne) }

MaxReruns == 1

successfulSkillNames(rs) == { rs[k].skill : k \in { m \in 1..Len(rs) : rs[m].success } }

\* A variant of step 2's test that looks for the entry only.
IsUpToDateByName(lock, skill, currentHash) == HasSkill(lock.skills, skill.name)

\* Step 2's test on one discovered skill, given the hash computed for it.
IsUpToDate(lock, skill, currentHash) ==
    /\ HasSkill(lock.skills, skill.name)
    /\ currentHash = GetSkill(lock.skills, skill.name).computedHash

\* A variant of step 5 that gives up at the first failed result.
InstallPendingUntilFailure(rs, skills, agents) ==
    /\ Len(rs) < Len(skills) * Len(agents)
    /\ \A k \in 1..Len(rs) : rs[k].success

\* A variant of step 5 that goes on to step 6 before the last pair.
InstallPendingButLast(rs, skills, agents) == Len(rs) + 1 < Len(skills) * Len(agents)

\* Step 5's loops have a pair left to install.
InstallPending(rs, skills, agents) == Len(rs) < Len(skills) * Len(agents)

\* Step 6 records a skill of toInstall.
ShouldRecord(rs, skill) == skill.name \in successfulSkillNames(rs)

\* The entry step 6 hands to addSkillToLocalLock.
LockEntryFor(skill, computedHash) ==
    [source |-> skill.packageName, sourceType |-> "node_modules", computedHash |-> computedHash]

\* Step 6: const successful = results.filter((r) => r.success), and failed.
Successful(rs) == SelectSeq(rs, LAMBDA r : r.success)

Failed(rs) == SelectSeq(rs, LAMBDA r : ~r.success)

\* Step 7: the Map bySkill, its keys in the order of their insertion.
RECURSIVE BySkill(_)
BySkill(rs) ==
    IF rs = <<>> THEN <<>>
    ELSE LET bySkill == BySkill(SubSeq(rs, 1, Len(rs) - 1))
             r == rs[Len(rs)] IN
         IF \E i \in 1..Len(bySkill) : bySkill[i].skill = r.skill
         THEN [i \in 1..Len(bySkill) |->
                 IF bySkill[i].skill = r.skill
                 THEN [bySkill[i] EXCEPT !.skillResults = Append(@, r)]
                 ELSE bySkill[i]]
         ELSE Append(bySkill, [skill |-> r.skill, skillResults |-> <<r>>])

\* A variant of the count of synced skills: the successful installs.
SkillCountByInstall(successful) == Len(successful)

\* const skillCount = bySkill.size
SkillCount(successful) == Len(BySkill(successful))

\* Step 7: the note "Synced n skills" (when there is a successful install),
\* the line "Failed to install n" (when there is a failed one), and the
\* counts given to track.
ReportOf(rs, skills) ==
    [shown |-> TRUE,
     synced |-> IF Len(Successful(rs)) > 0 THEN SkillCount(Successful(rs)) ELSE 0,
     failed |-> Len(Failed(rs)),
     skillCount |-> Len(skills),
     successCount |-> Cardinality(successfulSkillNames(rs))]

\* A variant of step 2's last test that never ends the run.
AlwaysSomethingToInstall(list) == FALSE

\* Step 2's last test: toInstall.length === 0.
NothingToInstall(list) == Len(list) = 0

\* A variant of step 6 in which a throw ends the loop over toInstall.
AbortAfterThrow(i, n) == n + 1

\* Step 6 after a throw in the try block: the empty catch block, then the
\* next turn of the loop.
AfterThrow(i, n) == i + 1

\* A variant of the confirmation that stops on a cancellation only.
ConfirmProceedsUnlessCancelled(answer) == answer # "cancelled"

\* p.confirm's answer lets the run go on.
ConfirmProceeds(answer) == ~(answer = "cancelled" \/ answer = "declined")

\* What searchMultiselect can return: a cancellation, or a list out of the
\* locked and the offered agents.
Selections(offered) ==
    { SelectSeq(UniversalAgents \o offered, LAMBDA a : a \in S) :
        S \in SUBSET SeqToSet(UniversalAgents \o offered) }

\* The run of before synchronised everything it discovered.
RunWasClean ==
    \/ outcome = "up to date"
    \/ /\ outcome = "done"
       /\ \A i \in 1..Len(toInstall) :
            toInstall[i].name \in successfulSkillNames(results) \ lockFailures

lockRest == <<lockOrigin, ret, lastCall>>

SyncInit ==
    /\ ipc = "idle"
    /\ skillEntries = <<>>
    /\ nodeModuleSkills = <<>>
    /\ bySource = <<>>
    /\ iidx = 1
    /\ calls = <<>>
    /\ ops = [p \in Callers |-> NoOp]
    /\ log = <<>>
    /\ report = NoReport
    /\ nodeModules = NoNodeModules
    /\ dpc = "idle"
    /\ dtasks = {}
    /\ skillsFound = <<>>
    /\ \E S \in { T \in SUBSET SkillUniverse : Cardinality(T) <= MaxSkills } :
         folders \in { f \in [ { sk.path : sk \in S } ->
                               UNION { FolderStates(sk) : sk \in S } ] :
                         \A p \in DOMAIN f : f[p].skill.path = p }
    /\ lockFile \in InitialSyncLocks
    /\ pc = "idle"
    /\ runNo = 0
    /\ options = NoOptions
    /\ installedAgents = <<>>
    /\ discoveredSkills = <<>>
    /\ localLock = createEmptyLocalLock
    /\ toInstall = <<>>
    /\ upToDate = <<>>
    /\ currentHashes = << >>
    /\ targetAgents = <<>>
    /\ results = <<>>
    /\ idx = 1
    /\ lockFailures = {}
    /\ userCancelled = FALSE
    /\ outcome = "running"
    /\ lockAtStart = NoFile
    /\ prevClean = FALSE
    /\ lockOrigin = Origin("given", "absent", createEmptyLocalLock)
    /\ ret = Returned(createEmptyLocalLock, FALSE)
    /\ lastCall = "none"
    /\ tree = << >>
    /\ hpc = "idle"
    /\ tasks = {}
    /\ files = <<>>
    /\ digest = NoDigest
    /\ prevDigest = NoDigest
    /\ lastOp = "none"

\* The run ends here.
Ends(how) == pc' = "finished" /\ outcome' = how

\* runSync is called; step 1, discovery, returns the skills in some order.
CallRunSync ==
    /\ report' = NoReport
    /\ pc = "idle"
    /\ runNo' = runNo + 1
    /\ lockAtStart' = lockFile
    /\ \E o \in SyncOptions : options' = o
    /\ \E d \in DetectedAgents :
         installedAgents' = IF options'.agent = <<>> THEN d ELSE <<>>
    /\ discoveredSkills' \in Orders({ folders[p].skill : p \in DOMAIN folders })
    /\ IF discoveredSkills' = <<>>
       THEN Ends("no skills found")
       ELSE pc' = "readLock" /\ outcome' = "running"
    /\ localLock' = createEmptyLocalLock
    /\ toInstall' = <<>>
    /\ upToDate' = <<>>
    /\ currentHashes' = << >>
    /\ targetAgents' = <<>>
    /\ results' = <<>>
    /\ idx' = 1
    /\ lockFailures' = {}
    /\ userCancelled' = FALSE
    /\ UNCHANGED <<folders, prevClean, lockFile, lockRest, hvars, dvars, cvars, ivars>>

\* The first run on the project directory.
StartRun == runNo = 0 /\ CallRunSync

\* runSync is run again, nothing on disk having changed since the run before.
Rerun == runNo >= 1 /\ runNo <= MaxReruns /\ CallRunSync

\* Step 2: const localLock = await readLocalLock(cwd).
ReadLock ==
    /\ pc = "readLock"
    /\ localLock' = readLocalLock(lockFile)
    /\ pc' = "partition"
    /\ idx' = 1
    /\ UNCHANGED <<folders, runNo, options, installedAgents, discoveredSkills, toInstall,
                   upToDate, currentHashes, targetAgents, results, lockFailures, userCancelled,
                   outcome, lockAtStart, prevClean, lockFile, lockRest, hvars, dvars, cvars, ivars, report>>

\* Step 2 with options.force: toInstall.push(...discoveredSkills).
PartitionForce ==
    /\ pc = "partition"
    /\ options.force
    /\ toInstall' = discoveredSkills
    /\ pc' = "selectAgents"
    /\ UNCHANGED <<folders, runNo, options, installedAgents, discoveredSkills, localLock,
                   upToDate, currentHashes, targetAgents, results, idx, lockFailures,
                   userCancelled, outcome, lockAtStart, prevClean, lockFile, lockRest, hvars, dvars, cvars, ivars, report>>

\* Step 2, one turn of the loop over discoveredSkills.
PartitionSkill ==
    /\ pc = "partition"
    /\ ~options.force
    /\ idx <= Len(discoveredSkills)
    /\ LET skill == discoveredSkills[idx] IN
       \/ /\ ~HasSkill(localLock.skills, skill.name)
          /\ toInstall' = Append(toInstall, skill)
          /\ idx' = idx + 1
          /\ UNCHANGED <<upToDate, currentHashes, pc, outcome>>
       \/ /\ HasSkill(localLock.skills, skill.name)
          /\ ~folders[skill.path].readable
          /\ Ends("rejected")                     \* computeSkillFolderHash throws
          /\ UNCHANGED <<toInstall, upToDate, currentHashes, idx>>
       \/ /\ HasSkill(localLock.skills, skill.name)
          /\ folders[skill.path].readable
          /\ \E currentHash \in FolderDigests(folders[skill.path].tree) :
               /\ currentHashes' = (skill.path :> currentHash) @@ currentHashes
               /\ IF IsUpToDate(localLock, skill, currentHash)
                  THEN upToDate' = Append(upToDate, skill.name) /\ toInstall' = toInstall
                  ELSE toInstall' = Append(toInstall, skill) /\ upToDate' = upToDate
          /\ idx' = idx + 1
          /\ UNCHANGED <<pc, outcome>>
    /\ UNCHANGED <<folders, runNo, options, installedAgents, discoveredSkills, localLock,
                   targetAgents, results, lockFailures, userCancelled, lockAtStart, prevClean,
                   lockFile, lockRest, hvars, dvars, cvars, ivars, report>>

\* Step 2, after the loop: nothing to install ends the run.
PartitionEnd ==
    /\ pc = "partition"
    /\ ~options.force
    /\ idx > Len(discoveredSkills)
    /\ IF NothingToInstall(toInstall)
       THEN Ends("up to date")
       ELSE pc' = "selectAgents" /\ outcome' = outcome
    /\ UNCHANGED <<folders, runNo, options, installedAgents, discoveredSkills, localLock,
                   toInstall, upToDate, currentHashes, targetAgents, results, idx, lockFailures,
                   userCancelled, lockAtStart, prevClean, lockFile, lockRest, hvars, dvars, cvars, ivars, report>>

\* A variant of the test for the wildcard: '*' given alone.
WildcardAlone(agent) == agent = <<"*">>

\* options.agent?.includes('*')
IncludesWildcard(agent) == "*" \in SeqToSet(agent)

\* Step 3 with --agent '*': every valid agent, the other names not looked at.
SelectAllAgents ==
    /\ pc = "selectAgents"
    /\ IncludesWildcard(options.agent)
    /\ targetAgents' = ValidAgents
    /\ pc' = "confirm"
    /\ UNCHANGED <<folders, runNo, options, installedAgents, discoveredSkills, localLock,
                   toInstall, upToDate, currentHashes, results, idx, lockFailures,
                   userCancelled, outcome, lockAtStart, prevClean, lockFile, lockRest, hvars, dvars, cvars, ivars, report>>

\* Step 3 with --agent names: an invalid name is process.exit(1).
SelectGivenAgents ==
    /\ pc = "selectAgents"
    /\ ~IncludesWildcard(options.agent)
    /\ Len(options.agent) > 0
    /\ LET invalidAgents == SelectSeq(options.agent, LAMBDA a : a \notin SeqToSet(ValidAgents)) IN
       IF Len(invalidAgents) > 0
       THEN Ends("invalid agents") /\ targetAgents' = targetAgents
       ELSE targetAgents' = options.agent /\ pc' = "confirm" /\ outcome' = outcome
    /\ UNCHANGED <<folders, runNo, options, installedAgents, discoveredSkills, localLock,
                   toInstall, upToDate, currentHashes, results, idx, lockFailures,
                   userCancelled, lockAtStart, prevClean, lockFile, lockRest, hvars, dvars, cvars, ivars, report>>

\* Step 3 without --agent and without a prompt: the universal agents (no
\* agent detected, --yes), or the detected agents and the universal ones
\* (one agent detected, or --yes).
SelectDetectedAgents ==
    /\ pc = "selectAgents"
    /\ Len(options.agent) = 0
    /\ \/ /\ Len(installedAgents) = 0
          /\ options.yes
          /\ targetAgents' = UniversalAgents
       \/ /\ Len(installedAgents) > 0
          /\ Len(installedAgents) = 1 \/ options.yes
          /\ targetAgents' = installedAgents
                \o SelectSeq(UniversalAgents, LAMBDA ua : ua \notin SeqToSet(installedAgents))
    /\ pc' = "confirm"
    /\ UNCHANGED <<folders, runNo, options, installedAgents, discoveredSkills, localLock,
                   toInstall, upToDate, currentHashes, results, idx, lockFailures,
                   userCancelled, outcome, lockAtStart, prevClean, lockFile, lockRest, hvars, dvars, cvars, ivars, report>>

\* Step 3 with the searchMultiselect prompt: a cancellation is process.exit(0).
SelectPromptedAgents ==
    /\ pc = "selectAgents"
    /\ Len(options.agent) = 0
    /\ ~options.yes
    /\ Len(installedAgents) # 1
    /\ LET offered == IF Len(installedAgents) = 0
                      THEN NonUniversalAgents
                      ELSE SelectSeq(NonUniversalAgents,
                                     LAMBDA a : a \in SeqToSet(installedAgents)) IN
       \/ /\ userCancelled' = TRUE                 \* isCancelled(selected)
          /\ Ends("cancelled")
          /\ targetAgents' = targetAgents
       \/ /\ \E selected \in Selections(offered) : targetAgents' = selected
          /\ pc' = "confirm"
          /\ UNCHANGED <<userCancelled, outcome>>
    /\ UNCHANGED <<folders, runNo, options, installedAgents, discoveredSkills, localLock,
                   toInstall, upToDate, currentHashes, results, idx, lockFailures,
                   lockAtStart, prevClean, lockFile, lockRest, hvars, dvars, cvars, ivars, report>>

\* Step 4 and the confirmation: without --yes, p.confirm is asked.
Confirm ==
    /\ pc = "confirm"
    /\ \/ /\ options.yes
          /\ pc' = "install"
          /\ UNCHANGED <<userCancelled, outcome>>
       \/ /\ ~options.yes
          /\ \E answer \in {"confirmed", "declined", "cancelled"} :
               /\ userCancelled' = (answer # "confirmed")
               /\ IF ConfirmProceeds(answer)
                  THEN pc' = "install" /\ outcome' = outcome
                  ELSE Ends("cancelled")
    /\ UNCHANGED <<folders, runNo, options, installedAgents, discoveredSkills, localLock,
                   toInstall, upToDate, currentHashes, targetAgents, results, idx, lockFailures,
                   lockAtStart, prevClean, lockFile, lockRest, hvars, dvars, cvars, ivars, report>>

\* Step 5, one installSkillForAgent call and the push of its result.
InstallSkillForAgent ==
    /\ pc = "install"
    /\ InstallPending(results, toInstall, targetAgents)
    /\ LET skill == toInstall[(Len(results) \div Len(targetAgents)) + 1]
           agent == targetAgents[(Len(results) % Len(targetAgents)) + 1] IN
       \E success \in BOOLEAN :
          results' = Append(results, [skill |-> skill.name, packageName |-> skill.packageName,
                                      agent |-> agent, success |-> success])
    /\ UNCHANGED <<folders, pc, runNo, options, installedAgents, discoveredSkills,
                   localLock, toInstall, upToDate, currentHashes, targetAgents, idx,
                   lockFailures, userCancelled, outcome, lockAtStart, prevClean, lockFile,
                   lockRest, hvars, dvars, cvars, ivars, report>>

\* Step 5's loops are over.
InstallDone ==
    /\ pc = "install"
    /\ ~InstallPending(results, toInstall, targetAgents)
    /\ pc' = "updateLock"
    /\ idx' = 1
    /\ UNCHANGED <<folders, runNo, options, installedAgents, discoveredSkills, localLock,
                   toInstall, upToDate, currentHashes, targetAgents, results, lockFailures,
                   userCancelled, outcome, lockAtStart, prevClean, lockFile, lockRest, hvars, dvars, cvars, ivars, report>>

\* Step 6, one turn of the loop over toInstall.  What the try block throws
\* (the hash of an unreadable folder, a failed write of the lock file) is
\* caught and dropped.
UpdateLock ==
    /\ pc = "updateLock"
    /\ idx <= Len(toInstall)
    /\ LET skill == toInstall[idx] IN
       \/ /\ ~ShouldRecord(results, skill)
          /\ idx' = idx + 1
          /\ UNCHANGED <<lockFile, lockFailures>>
       \/ /\ ShouldRecord(results, skill)
          /\ ~folders[skill.path].readable
          /\ lockFailures' = lockFailures \cup {skill.name}
          /\ idx' = AfterThrow(idx, Len(toInstall))
          /\ UNCHANGED lockFile
       \/ /\ ShouldRecord(results, skill)
          /\ folders[skill.path].readable
          /\ lockFailures' = lockFailures \cup {skill.name}    \* writeFile throws
          /\ idx' = AfterThrow(idx, Len(toInstall))
          /\ UNCHANGED lockFile
       \/ /\ ShouldRecord(results, skill)
          /\ folders[skill.path].readable
          /\ \E computedHash \in FolderDigests(folders[skill.path].tree) :
               lockFile' = addSkillToLocalLock(lockFile, skill.name,
                                               LockEntryFor(skill, computedHash))
          /\ idx' = idx + 1
          /\ UNCHANGED lockFailures
    /\ UNCHANGED <<folders, pc, runNo, options, installedAgents, discoveredSkills,
                   localLock, toInstall, upToDate, currentHashes, targetAgents, results,
                   userCancelled, outcome, lockAtStart, prevClean, lockRest, hvars, dvars, cvars, ivars, report>>

\* Step 7: the results are displayed and the run returns.
Report ==
    /\ report' = ReportOf(results, toInstall)
    /\ pc = "updateLock"
    /\ idx > Len(toInstall)
    /\ Ends("done")
    /\ UNCHANGED <<folders, runNo, options, installedAgents, discoveredSkills, localLock,
                   toInstall, upToDate, currentHashes, targetAgents, results, idx, lockFailures,
                   userCancelled, lockAtStart, prevClean, lockFile, lockRest, hvars, dvars, cvars, ivars>>

\* runSync has returned, or the process has exited: the run's locals are gone.
RunReturns ==
    /\ report' = NoReport
    /\ pc = "finished"
    /\ pc' = "idle"
    /\ prevClean' = RunWasClean
    /\ outcome' = "running"
    /\ options' = NoOptions
    /\ installedAgents' = <<>>
    /\ discoveredSkills' = <<>>
    /\ localLock' = createEmptyLocalLock
    /\ toInstall' = <<>>
    /\ upToDate' = <<>>
    /\ currentHashes' = << >>
    /\ targetAgents' = <<>>
    /\ results' = <<>>
    /\ idx' = 1
    /\ lockFailures' = {}
    /\ userCancelled' = FALSE
    /\ lockAtStart' = NoFile
    /\ UNCHANGED <<folders, runNo, lockFile, lockRest, hvars, dvars, cvars, ivars>>

Next ==
    \/ StartRun
    \/ ReadLock
    \/ PartitionForce
    \/ PartitionSkill
    \/ PartitionEnd
    \/ SelectAllAgents
    \/ SelectGivenAgents
    \/ SelectDetectedAgents
    \/ SelectPromptedAgents
    \/ Confirm
    \/ InstallSkillForAgent
    \/ InstallDone
    \/ UpdateLock
    \/ Report
    \/ RunReturns

Spec == SyncInit /\ [][Next]_vars

(***************************************************************************)
(* SpecRerun: runSync run twice in a row on the same project directory     *)
(***************************************************************************)
RerunInit ==
    /\ SyncInit
    /\ lockFile = NoFile

NextRerun ==
    \/ StartRun
    \/ Rerun
    \/ ReadLock
    \/ PartitionForce
    \/ PartitionSkill
    \/ PartitionEnd
    \/ SelectAllAgents
    \/ SelectGivenAgents
    \/ SelectDetectedAgents
    \/ SelectPromptedAgents
    \/ Confirm
    \/ InstallSkillForAgent
    \/ InstallDone
    \/ UpdateLock
    \/ Report
    \/ RunReturns

SpecRerun == RerunInit /\ [][NextRerun]_vars


(***************************************************************************)
(* SpecDiscover: one discoverNodeModuleSkills call, the async functions of *)
(* its Promise.all fan-out running in any interleaving                     *)
(***************************************************************************)
SkillMd == <<83, 75, 73, 76, 76, 46, 109, 100>>     \* "SKILL.md"
SkillsDir == <<115, 107, 105, 108, 108, 115>>       \* "skills"
AgentsDir == <<46, 97, 103, 101, 110, 116, 115>>    \* ".agents"
PkgP == <<112>>                                     \* "p"
PkgQ == <<113>>                                     \* "q"
ScopeS == <<64, 115>>                               \* "@s"
HiddenB == <<46, 98>>                               \* ".b"
NameC == <<99>>                                     \* "c"
NameF == <<102>>                                    \* "f"
NameX == <<120>>                                    \* "x"
NameY == <<121>>                                    \* "y"

\* The regular files a dependency directory of the model may hold, by their
\* paths under node_modules; its directories are the proper prefixes.
LeafUniverse ==
    { <<PkgP, SkillMd>>,                                  \* p/SKILL.md
      <<PkgP, SkillsDir, NameX, SkillMd>>,                \* p/skills/x/SKILL.md
      <<PkgP, SkillsDir, NameY, SkillMd>>,                \* p/skills/y/SKILL.md
      <<PkgP, SkillsDir, NameF>>,                         \* p/skills/f, a file
      <<PkgP, SkillsDir, NameX, NameY, SkillMd>>,         \* p/skills/x/y/SKILL.md
      <<PkgP, NameX, SkillMd>>,                           \* p/x/SKILL.md
      <<PkgP, AgentsDir, SkillsDir, NameX, SkillMd>>,     \* p/.agents/skills/x/SKILL.md
      <<PkgQ, SkillsDir, NameX, SkillMd>>,                \* q/skills/x/SKILL.md
      <<ScopeS, NameC, SkillMd>>,                         \* @s/c/SKILL.md
      <<ScopeS, NameC, SkillsDir, NameX, SkillMd>>,       \* @s/c/skills/x/SKILL.md
      <<ScopeS, SkillMd>>,                                \* @s/SKILL.md
      <<ScopeS, NameF>>,                                  \* @s/f, a file
      <<HiddenB, SkillMd>>,                               \* .b/SKILL.md
      <<NameF>> }                                         \* f, a file

MaxLeaves == 3

\* The directories of a tree, node_modules itself (<<>>) among them.
DirsOf(leaves) == UNION { { SubSeq(l, 1, n) : n \in 0..(Len(l) - 1) } : l \in leaves }

\* The dependency directories of the model: absent, or a tree of at most
\* MaxLeaves files in which at most one directory cannot be listed.
NodeModulesStates ==
    { NoNodeModules }
    \cup UNION { { [present |-> TRUE, leaves |-> L, unreadable |-> U] :
                     U \in { {} } \cup { {d} : d \in DirsOf(L) \cup { <<>> } } } :
                 L \in { T \in SUBSET LeafUniverse :
                           Cardinality(T) <= MaxLeaves /\ IsTree(T) } }

\* stat(path).isDirectory(), stat following the path under node_modules.
IsDirectory(nm, path) ==
    /\ nm.present
    /\ path = <<>> \/ path \in DirsOf(nm.leaves)

\* readdir(dir): the names, or a rejection (no such directory, not a
\* directory, no permission).
ReaddirNames(nm, dir) ==
    IF IsDirectory(nm, dir) /\ dir \notin nm.unreadable
    THEN [ok |-> TRUE,
          names |-> { l[Len(dir) + 1] : l \in { m \in nm.leaves : IsPrefix(dir, m) } }]
    ELSE [ok |-> FALSE, names |-> {}]

\* parseSkillMd(join(dir, 'SKILL.md')): the skill the manifest declares, or
\* null when there is no such file.  The skill is named after its folder.
parseSkillMd(nm, dir) ==
    IF nm.present /\ Append(dir, SkillMd) \in nm.leaves
    THEN <<[name |-> dir[Len(dir)], path |-> dir]>>
    ELSE <<>>

\* `${name}/${scopedName}`
ScopedNameOnly(name, scopedName) == scopedName

ScopedPackageName(name, scopedName) == name \o <<47>> \o scopedName

\* A variant of processPackageDir that searches the package also after a
\* SKILL.md at its root.
SearchDirsAlways(pkgDir, rootSkill) ==
    <<pkgDir, Append(pkgDir, SkillsDir), pkgDir \o <<AgentsDir, SkillsDir>>>>

\* The directories processPackageDir goes on to search, given what
\* parseSkillMd returned for the package root.
SearchDirs(pkgDir, rootSkill) ==
    IF rootSkill # <<>>
    THEN <<>>
    ELSE <<pkgDir, Append(pkgDir, SkillsDir), pkgDir \o <<AgentsDir, SkillsDir>>>>

\* A variant without the catch blocks around readdir.
ReaddirFailureThrown(dir) == FALSE

\* A rejected readdir is caught where it is awaited.
ReaddirFailureCaught(dir) == TRUE

\* A variant of the push that writes back a list read before an await.
PushOverwriting(list, skill, packageName) ==
    <<[name |-> skill.name, path |-> skill.path, packageName |-> packageName]>>

\* skills.push({ ...skill, packageName })
Push(list, skill, packageName) ==
    Append(list, [name |-> skill.name, path |-> skill.path, packageName |-> packageName])

\* The async function of Promise.all for one name of node_modules, at its start.
TopTask(name) ==
    [k |-> "top", dir |-> <<name>>, packageName |-> name, dirs |-> <<>>,
     listed |-> FALSE, todo |-> {}]

\* The async function for one name of a scope directory, at its start.
ScopedTask(name, scopedName) ==
    [k |-> "scoped", dir |-> <<name, scopedName>>,
     packageName |-> ScopedPackageName(name, scopedName), dirs |-> <<>>,
     listed |-> FALSE, todo |-> {}]

\* processPackageDir(pkgDir, packageName), at its start.
PackageTask(pkgDir, packageName) ==
    [k |-> "package", dir |-> pkgDir, packageName |-> packageName, dirs |-> <<>>,
     listed |-> FALSE, todo |-> {}]

\* processPackageDir in its loop over searchDirs.
SearchTask(t, dirs) == [t EXCEPT !.k = "search", !.dirs = dirs, !.listed = FALSE, !.todo = {}]

DiscoverInit ==
    /\ ipc = "idle"
    /\ skillEntries = <<>>
    /\ nodeModuleSkills = <<>>
    /\ bySource = <<>>
    /\ iidx = 1
    /\ calls = <<>>
    /\ ops = [p \in Callers |-> NoOp]
    /\ log = <<>>
    /\ report = NoReport
    /\ nodeModules \in NodeModulesStates
    /\ dpc = "idle"
    /\ dtasks = {}
    /\ skillsFound = <<>>
    /\ lockFile = NoFile
    /\ lockOrigin = Origin("given", "absent", createEmptyLocalLock)
    /\ ret = Returned(createEmptyLocalLock, FALSE)
    /\ lastCall = "none"
    /\ tree = << >>
    /\ hpc = "idle"
    /\ tasks = {}
    /\ files = <<>>
    /\ digest = NoDigest
    /\ prevDigest = NoDigest
    /\ lastOp = "none"
    /\ folders = << >>
    /\ pc = "idle"
    /\ runNo = 0
    /\ options = NoOptions
    /\ installedAgents = <<>>
    /\ discoveredSkills = <<>>
    /\ localLock = createEmptyLocalLock
    /\ toInstall = <<>>
    /\ upToDate = <<>>
    /\ currentHashes = << >>
    /\ targetAgents = <<>>
    /\ results = <<>>
    /\ idx = 1
    /\ lockFailures = {}
    /\ userCancelled = FALSE
    /\ outcome = "running"
    /\ lockAtStart = NoFile
    /\ prevClean = FALSE

\* discoverNodeModuleSkills is called: readdir(nodeModulesDir), then one
\* async function per name.
DiscoverCall ==
    /\ dpc = "idle"
    /\ LET r == ReaddirNames(nodeModules, <<>>) IN
       IF r.ok
       THEN dpc' = "running" /\ dtasks' = { TopTask(name) : name \in r.names }
       ELSE /\ dpc' = (IF ReaddirFailureCaught(<<>>) THEN "returned" ELSE "rejected")
            /\ dtasks' = {}
    /\ UNCHANGED <<nodeModules, skillsFound, hvars, lvars, svars, cvars, ivars>>

\* The async function for a name of node_modules, up to processPackageDir
\* or to the fan-out over a scope.
TopName ==
    /\ dpc = "running"
    /\ \E t \in dtasks :
        /\ t.k = "top"
        /\ LET name == t.packageName IN
           IF name[1] = 46 \/ ~IsDirectory(nodeModules, t.dir)
           THEN dtasks' = dtasks \ {t} /\ dpc' = dpc
           ELSE IF name[1] = 64
           THEN LET r == ReaddirNames(nodeModules, t.dir) IN
                IF r.ok
                THEN /\ dtasks' = (dtasks \ {t})
                                  \cup { ScopedTask(name, scopedName) : scopedName \in r.names }
                     /\ dpc' = dpc
                ELSE IF ReaddirFailureCaught(t.dir)
                THEN dtasks' = dtasks \ {t} /\ dpc' = dpc
                ELSE dtasks' = {} /\ dpc' = "rejected"
           ELSE dtasks' = (dtasks \ {t}) \cup { PackageTask(t.dir, name) } /\ dpc' = dpc
    /\ UNCHANGED <<nodeModules, skillsFound, hvars, lvars, svars, cvars, ivars>>

\* The async function for a name of a scope directory, up to processPackageDir.
ScopedName ==
    /\ dpc = "running"
    /\ \E t \in dtasks :
        /\ t.k = "scoped"
        /\ dtasks' = IF IsDirectory(nodeModules, t.dir)
                     THEN (dtasks \ {t}) \cup { PackageTask(t.dir, t.packageName) }
                     ELSE dtasks \ {t}
    /\ UNCHANGED <<nodeModules, dpc, skillsFound, hvars, lvars, svars, cvars, ivars>>

\* processPackageDir: the SKILL.md at the package root.
PackageRoot ==
    /\ dpc = "running"
    /\ \E t \in dtasks :
        /\ t.k = "package"
        /\ LET rootSkill == parseSkillMd(nodeModules, t.dir)
               dirs == SearchDirs(t.dir, rootSkill) IN
           /\ skillsFound' = IF rootSkill # <<>>
                             THEN Push(skillsFound, rootSkill[1], t.packageName)
                             ELSE skillsFound
           /\ dtasks' = IF dirs = <<>>
                        THEN dtasks \ {t}
                        ELSE (dtasks \ {t}) \cup { SearchTask(t, dirs) }
    /\ UNCHANGED <<nodeModules, dpc, hvars, lvars, svars, cvars, ivars>>

\* processPackageDir: readdir(searchDir) for the next of searchDirs.
ListSearchDir ==
    /\ dpc = "running"
    /\ \E t \in dtasks :
        /\ t.k = "search"
        /\ ~t.listed
        /\ LET r == ReaddirNames(nodeModules, Head(t.dirs)) IN
           IF r.ok
           THEN /\ dtasks' = (dtasks \ {t}) \cup { [t EXCEPT !.listed = TRUE, !.todo = r.names] }
                /\ dpc' = dpc
           ELSE IF ReaddirFailureCaught(Head(t.dirs))
           THEN /\ dtasks' = IF Len(t.dirs) = 1
                             THEN dtasks \ {t}
                             ELSE (dtasks \ {t}) \cup { SearchTask(t, Tail(t.dirs)) }
                /\ dpc' = dpc
           ELSE dtasks' = {} /\ dpc' = "rejected"
    /\ UNCHANGED <<nodeModules, skillsFound, hvars, lvars, svars, cvars, ivars>>

\* processPackageDir: one entry of the listed searchDir (stat, parseSkillMd,
\* push), or the end of the entries.
SearchEntry ==
    /\ dpc = "running"
    /\ \E t \in dtasks :
        /\ t.k = "search"
        /\ t.listed
        /\ IF t.todo = {}
           THEN /\ dtasks' = IF Len(t.dirs) = 1
                             THEN dtasks \ {t}
                             ELSE (dtasks \ {t}) \cup { SearchTask(t, Tail(t.dirs)) }
                /\ skillsFound' = skillsFound
           ELSE \E name \in t.todo :
                LET skillDir == Append(Head(t.dirs), name)
                    skill == IF IsDirectory(nodeModules, skillDir)
                             THEN parseSkillMd(nodeModules, skillDir)
                             ELSE <<>> IN
                /\ skillsFound' = IF skill # <<>>
                                  THEN Push(skillsFound, skill[1], t.packageName)
                                  ELSE skillsFound
                /\ dtasks' = (dtasks \ {t}) \cup { [t EXCEPT !.todo = t.todo \ {name}] }
    /\ UNCHANGED <<nodeModules, dpc, hvars, lvars, svars, cvars, ivars>>

\* Every async function has returned: return skills.
DiscoverReturn ==
    /\ dpc = "running"
    /\ dtasks = {}
    /\ dpc' = "returned"
    /\ UNCHANGED <<nodeModules, dtasks, skillsFound, hvars, lvars, svars, cvars, ivars>>

DiscoverNext ==
    \/ DiscoverCall
    \/ TopName
    \/ ScopedName
    \/ PackageRoot
    \/ ListSearchDir
    \/ SearchEntry
    \/ DiscoverReturn

SpecDiscover == DiscoverInit /\ [][DiscoverNext]_vars

(***************************************************************************)
(* SpecInstall: one run of runInstallFromLock on a lock file; runAdd and   *)
(* runSync are the calls made, each returning or throwing                  *)
(***************************************************************************)
\* "a", "B", "9"
InstallNames == { <<97>>, <<66>>, <<57>> }

InstallEntries ==
    { [source |-> "owner/repo", sourceType |-> "github", computedHash |-> Sha256Hex(<<98>>)],
      [source |-> "other/repo", sourceType |-> "github", computedHash |-> Sha256Hex(<<98>>)],
      [source |-> "owner/repo", sourceType |-> "node_modules", computedHash |-> Sha256Hex(<<97>>)],
      [source |-> "pkg", sourceType |-> "node_modules", computedHash |-> Sha256Hex(<<97>>)] }

RECURSIVE SkillsFrom(_, _)
SkillsFrom(f, S) ==
    IF S = {} THEN <<>>
    ELSE LET n == CHOOSE m \in S : TRUE
         IN  DefineSkill(SkillsFrom(f, S \ {n}), n, f[n])

\* The lock files a run finds: none, and those written for the locks with
\* entries under some of the names.
InstallLockFiles ==
    { NoFile }
    \cup { writeLocalLock([version |-> CURRENT_VERSION, skills |-> SkillsFrom(f, S)]) :
             f \in [InstallNames -> InstallEntries], S \in SUBSET InstallNames }

\* A variant of the grouping that opens a group for every entry.
BySourceSetAlways(map, skillName, entry) ==
    Append(map, [source |-> entry.source, sourceType |-> entry.sourceType,
                 skills |-> <<skillName>>])

\* const existing = bySource.get(entry.source); push to it, or set a new group.
BySourceSet(map, skillName, entry) ==
    IF \E i \in 1..Len(map) : map[i].source = entry.source
    THEN [i \in 1..Len(map) |->
            IF map[i].source = entry.source
            THEN [map[i] EXCEPT !.skills = Append(@, skillName)]
            ELSE map[i]]
    ELSE Append(map, [source |-> entry.source, sourceType |-> entry.sourceType,
                      skills |-> <<skillName>>])

\* The loop over skillEntries: [nodeModuleSkills, bySource] after it.
RECURSIVE Separate(_)
Separate(entries) ==
    IF entries = <<>> THEN [nodeModuleSkills |-> <<>>, bySource |-> <<>>]
    ELSE LET before == Separate(SubSeq(entries, 1, Len(entries) - 1))
             e == entries[Len(entries)] IN
         IF e.entry.sourceType = "node_modules"
         THEN [before EXCEPT !.nodeModuleSkills = Append(@, e.name)]
         ELSE [before EXCEPT !.bySource = BySourceSet(@, e.name, e.entry)]

RunAddCall(source, skills, threw) ==
    [fn |-> "runAdd", source |-> source, skill |-> skills,
     agent |-> "universalAgentNames", yes |-> TRUE, threw |-> threw]

RunSyncCall(threw) ==
    [fn |-> "runSync", source |-> "", skill |-> <<>>,
     agent |-> "universalAgentNames", yes |-> TRUE, threw |-> threw]

InstallInit ==
    /\ ops = [p \in Callers |-> NoOp]
    /\ log = <<>>
    /\ report = NoReport
    /\ nodeModules = NoNodeModules
    /\ dpc = "idle"
    /\ dtasks = {}
    /\ skillsFound = <<>>
    /\ lockFile \in InstallLockFiles
    /\ lockOrigin = Origin("given", "absent", createEmptyLocalLock)
    /\ ret = Returned(createEmptyLocalLock, FALSE)
    /\ lastCall = "none"
    /\ tree = << >>
    /\ hpc = "idle"
    /\ tasks = {}
    /\ files = <<>>
    /\ digest = NoDigest
    /\ prevDigest = NoDigest
    /\ lastOp = "none"
    /\ folders = << >>
    /\ pc = "idle"
    /\ runNo = 0
    /\ options = NoOptions
    /\ installedAgents = <<>>
    /\ discoveredSkills = <<>>
    /\ localLock = createEmptyLocalLock
    /\ toInstall = <<>>
    /\ upToDate = <<>>
    /\ currentHashes = << >>
    /\ targetAgents = <<>>
    /\ results = <<>>
    /\ idx = 1
    /\ lockFailures = {}
    /\ userCancelled = FALSE
    /\ outcome = "running"
    /\ lockAtStart = NoFile
    /\ prevClean = FALSE
    /\ ipc = "idle"
    /\ skillEntries = <<>>
    /\ nodeModuleSkills = <<>>
    /\ bySource = <<>>
    /\ iidx = 1
    /\ calls = <<>>

\* runInstallFromLock up to the first runAdd call: the lock is read, and
\* either the run returns with a warning or the entries are separated.
InstallFromLockCall ==
    /\ ipc = "idle"
    /\ LET lock == readLocalLock(lockFile)
           separated == Separate(lock.skills)
       IN  /\ skillEntries' = lock.skills
           /\ IF Len(lock.skills) = 0
              THEN /\ ipc' = "returned"
                   /\ UNCHANGED <<nodeModuleSkills, bySource>>
              ELSE /\ ipc' = "adding"
                   /\ nodeModuleSkills' = separated.nodeModuleSkills
                   /\ bySource' = separated.bySource
    /\ UNCHANGED <<iidx, calls, hvars, lvars, svars, dvars, cvars>>

\* One turn of the loop over bySource: runAdd returns or throws, and the
\* catch block logs the failure.
RunAdd ==
    /\ ipc = "adding"
    /\ iidx <= Len(bySource)
    /\ \E threw \in BOOLEAN :
          calls' = Append(calls, RunAddCall(bySource[iidx].source, bySource[iidx].skills, threw))
    /\ iidx' = iidx + 1
    /\ UNCHANGED <<ipc, skillEntries, nodeModuleSkills, bySource, hvars, lvars, svars, dvars, cvars>>

\* After the loop, with node_modules skills: runSync returns or throws.
RunSync ==
    /\ ipc = "adding"
    /\ iidx > Len(bySource)
    /\ Len(nodeModuleSkills) > 0
    /\ \E threw \in BOOLEAN : calls' = Append(calls, RunSyncCall(threw))
    /\ ipc' = "returned"
    /\ UNCHANGED <<skillEntries, nodeModuleSkills, bySource, iidx, hvars, lvars, svars, dvars, cvars>>

\* After the loop, without node_modules skills.
InstallFromLockReturn ==
    /\ ipc = "adding"
    /\ iidx > Len(bySource)
    /\ Len(nodeModuleSkills) = 0
    /\ ipc' = "returned"
    /\ UNCHANGED <<skillEntries, nodeModuleSkills, bySource, iidx, calls, hvars, lvars, svars, dvars, cvars>>

InstallNext ==
    \/ InstallFromLockCall
    \/ RunAdd
    \/ RunSync
    \/ InstallFromLockReturn

SpecInstall == InstallInit /\ [][InstallNext]_vars

(***************************************************************************)
(* Properties of the sync run (Spec, SpecRerun)                            *)
(***************************************************************************)
\* Step 2 has classified every discovered skill.
PartitionOver ==
    \/ pc \in {"selectAgents", "confirm", "install", "updateLock"}
    \/ pc = "finished" /\ outcome \in {"up to date", "invalid agents", "cancelled", "done"}

\* The installs of step 5 are over.
InstallsOver == pc = "updateLock" \/ (pc = "finished" /\ outcome = "done")

LockReadAtStart == readLocalLock(lockAtStart)

\* The lock read at the start has an entry under the skill's name, and the
\* digest computed now for the skill's folder equals its computedHash.
EntryMatches(skill) ==
    /\ HasSkill(LockReadAtStart.skills, skill.name)
    /\ skill.path \in DOMAIN currentHashes
    /\ currentHashes[skill.path] = GetSkill(LockReadAtStart.skills, skill.name).computedHash

\* The lock's entry under a name, or its absence.
EntryUnder(file, name) ==
    LET lock == readLocalLock(file)
    IN  IF HasSkill(lock.skills, name) THEN <<GetSkill(lock.skills, name)>> ELSE <<>>

\* C1: without --force a discovered skill is up to date exactly when the lock
\* read at the start has an entry under its name whose computedHash equals
\* the digest computed now over its folder, and every other discovered skill
\* is in toInstall; with --force every discovered skill is in toInstall and
\* the run never ends with "All skills are up to date".
C1_Partition ==
    /\ options.force => outcome # "up to date"
    /\ PartitionOver =>
         IF options.force
         THEN toInstall = discoveredSkills /\ upToDate = <<>>
         ELSE LET current == SelectSeq(discoveredSkills, EntryMatches) IN
              /\ upToDate = [i \in 1..Len(current) |-> current[i].name]
              /\ toInstall = SelectSeq(discoveredSkills, LAMBDA sk : ~EntryMatches(sk))
              /\ \A i \in 1..Len(discoveredSkills) :
                   LET skill == discoveredSkills[i] IN
                   HasSkill(LockReadAtStart.skills, skill.name) =>
                      /\ skill.path \in DOMAIN currentHashes
                      /\ currentHashes[skill.path] \in FolderDigests(folders[skill.path].tree)

\* One skill is up to date and another has an entry whose hash differs.
C1_Witness ==
    /\ pc = "selectAgents"
    /\ ~options.force
    /\ Len(upToDate) = 1
    /\ \E i \in 1..Len(toInstall) : HasSkill(LockReadAtStart.skills, toInstall[i].name)

\* C2: a run that follows a run which installed and recorded everything it
\* had to, with nothing changed on disk in between, invokes the installer
\* for nothing, ends with "All skills are up to date" and leaves the lock
\* file as the first run left it.
C2_Idempotent ==
    (pc # "idle" /\ prevClean /\ ~options.force) =>
        /\ results = <<>>
        /\ lockFile = lockAtStart
        /\ pc = "finished" => outcome = "up to date"

\* C3: a skill of toInstall whose installs all failed has, after the run,
\* the lock entry under its name (or none) that it had before the run.
C3_FailedNotRecorded ==
    InstallsOver =>
        \A i \in 1..Len(toInstall) :
            (\A k \in 1..Len(results) :
                (results[k].skill = toInstall[i].name
                 /\ results[k].packageName = toInstall[i].packageName) => ~results[k].success)
            => EntryUnder(lockFile, toInstall[i].name) = EntryUnder(lockAtStart, toInstall[i].name)

\* C4: a skill of toInstall with a successful install whose step 6 did not
\* throw has, after the run, a lock entry under its name with the digest of
\* its source folder, its package name as source and sourceType node_modules.
C4_SuccessRecorded ==
    (pc = "finished" /\ outcome = "done") =>
        \A i \in 1..Len(toInstall) :
            LET skill == toInstall[i]
                lock == readLocalLock(lockFile) IN
            ((\E k \in 1..Len(results) :
                 /\ results[k].skill = skill.name
                 /\ results[k].packageName = skill.packageName
                 /\ results[k].success)
             /\ skill.name \notin lockFailures)
            => /\ HasSkill(lock.skills, skill.name)
               /\ GetSkill(lock.skills, skill.name).source = skill.packageName
               /\ GetSkill(lock.skills, skill.name).sourceType = "node_modules"
               /\ GetSkill(lock.skills, skill.name).computedHash
                     \in FolderDigests(folders[skill.path].tree)

C6_CancelStops ==
    userCancelled =>
        /\ pc = "finished"
        /\ outcome = "cancelled"
        /\ results = <<>>
        /\ lockFile = lockAtStart

\* The confirmation was declined or cancelled after agents had been selected.
C6_Witness ==
    /\ userCancelled
    /\ Len(toInstall) > 0
    /\ Len(targetAgents) > 0

(***************************************************************************)
(* Properties of the lock store (SpecLock)                                 *)
(***************************************************************************)
\* C7: readLocalLock returns the empty lock for a file that is absent, is
\* not JSON (conflict markers among it), has no numeric version or no skills
\* object, or has a version below the current one, and the parsed content of
\* every other file.
C7_ReadLocalLock ==
    (lastCall = "readLocalLock" /\ lockOrigin.by = "given") =>
        IF lockOrigin.kind = "valid"
        THEN AsMap(ret.lock) = lockOrigin.denotes
        ELSE ret.lock = createEmptyLocalLock

\* A file with conflict markers around entries has been read.
C7_Witness ==
    /\ lastCall = "readLocalLock"
    /\ lockOrigin.kind = "conflict markers"
    /\ DOMAIN lockOrigin.denotes.skills # {}
    /\ ret.lock = createEmptyLocalLock

\* C8: readLocalLock after writeLocalLock(L), L of a supported version,
\* returns L up to the order of the keys.
C8_RoundTrip ==
    (lastCall = "readLocalLock" /\ lockOrigin.by = "writeLocalLock" /\ lockOrigin.kind = "valid")
        => AsMap(ret.lock) = lockOrigin.denotes

\* The names of the entries of a file's text, in the order of the lines.
EntryNames(text) ==
    LET entries == SelectSeq(text, LAMBDA l : l.t = "entry")
    IN  [i \in 1..Len(entries) |-> entries[i].name]

\* C13: a lock file that writeLocalLock, addSkillToLocalLock or
\* removeSkillFromLocalLock has written holds its entries in ascending
\* lexicographic order of their names, each name once.
C13_EntriesAscending ==
    (lockFile.exists /\ lockOrigin.by # "given") =>
        LET names == EntryNames(lockFile.text)
        IN  \A i \in 1..(Len(names) - 1) : LexCompare(names[i], names[i + 1]) < 0

\* C14: the file writeLocalLock(L) writes is the file it writes for every
\* lock with the version and the name-to-entry mapping of L, whatever the
\* order in which the names were inserted, and its text ends with one line
\* break and no second one before it.
C14_InsertionOrderFree ==
    lastCall = "writeLocalLock" =>
        /\ \A other \in LockUniverse :
              AsMap(other) = AsMap(ret.lock) => writeLocalLock(other) = lockFile
        /\ LET text == lockFile.text
           IN  /\ Len(text) >= 2
               /\ text[Len(text)] = LNewline
               /\ text[Len(text) - 1] # LNewline

\* A lock whose two names were inserted in descending order has been
\* written, and the file holds both entries.
C14_Witness ==
    /\ lastCall = "writeLocalLock"
    /\ Len(ret.lock.skills) = 2
    /\ LexCompare(ret.lock.skills[1].name, ret.lock.skills[2].name) > 0
    /\ Len(EntryNames(lockFile.text)) = 2

\* A file that holds a lock of a supported version, and the lock it holds.
IsValidLockFile(file) ==
    /\ file.exists
    /\ LET parsed == JSONParse(file.text)
       IN  /\ parsed.ok
           /\ parsed.value.versionKind = "number"
           /\ parsed.value.skillsKind = "object"
           /\ parsed.value.version >= CURRENT_VERSION

LockIn(file) ==
    LET parsed == JSONParse(file.text)
    IN  AsMap([version |-> parsed.value.version, skills |-> parsed.value.skills])

\* C15: a call addSkillToLocalLock(name, entry) on a valid lock file leaves
\* a file in which name has the entry given, every other name has the entry
\* it had, no further name has one, and the version is the one it was.
C15_AddMutatesOne ==
    [][(lastCall' = "addSkillToLocalLock" /\ IsValidLockFile(lockFile)) =>
         /\ IsValidLockFile(lockFile')
         /\ LET before == LockIn(lockFile)
                after == LockIn(lockFile')
                name == ret'.skillName
            IN  /\ after.version = before.version
                /\ DOMAIN after.skills = DOMAIN before.skills \cup {name}
                /\ after.skills[name] = ret'.entry
                /\ \A other \in DOMAIN before.skills \ {name} :
                      after.skills[other] = before.skills[other]]_vars

\* C16: removeSkillFromLocalLock(name) returns true exactly when the lock
\* read from the file has an entry under name; then the file written has no
\* entry under name and every other entry as it was; when it returns false
\* the file is as it was, and is not created.
C16_RemoveExact ==
    [][lastCall' = "removeSkillFromLocalLock" =>
         LET before == AsMap(readLocalLock(lockFile))
             name == ret'.skillName
         IN  /\ ret'.returns = (name \in DOMAIN before.skills)
             /\ ret'.returns =>
                   /\ IsValidLockFile(lockFile')
                   /\ LockIn(lockFile').skills =
                         [other \in DOMAIN before.skills \ {name} |-> before.skills[other]]
             /\ ~ret'.returns => lockFile' = lockFile]_vars

(***************************************************************************)
(* Properties of the content hasher (SpecHash)                             *)
(***************************************************************************)
\* C9: a second computeSkillFolderHash call on the same tree returns the
\* digest of the first, whatever the order in which the reads complete.
C9_Deterministic == (hpc = "done" /\ lastOp = "rehash") => digest = prevDigest

\* C10: after a file of the tree is renamed, its bytes and the other files
\* kept, computeSkillFolderHash returns another digest than before.
C10_RenameChangesDigest == (hpc = "done" /\ lastOp = "rename") => digest # prevDigest

\* C11: after the bytes of one file that is not excluded have changed, or
\* such a file has been added or deleted, computeSkillFolderHash returns
\* another digest than before.
C11_MutationChangesDigest ==
    (hpc = "done" /\ lastOp \in {"edit", "add", "delete"}) => digest # prevDigest

\* C12: after a file named .git or node_modules, or lying under a directory
\* of that name, has been added, changed or removed, computeSkillFolderHash
\* returns the digest it returned before.
C12_ExcludedIgnored ==
    (hpc = "done" /\ lastOp \in {"edit excluded", "add excluded", "delete excluded"})
        => digest = prevDigest

\* A run that has ended without work has selected no agent, installed
\* nothing and left the lock file as it was.
NoWorkDone ==
    outcome \in {"no skills found", "up to date"} =>
        /\ pc = "finished"
        /\ targetAgents = <<>>
        /\ results = <<>>
        /\ lockFile = lockAtStart
        /\ (outcome = "no skills found") = (discoveredSkills = <<>>)
        /\ toInstall = <<>>

\* A run past step 2 has something to install.
WorkAhead == pc \in {"selectAgents", "confirm", "install", "updateLock"} => toInstall # <<>>

\* The steps at which a run ends without work.
NoWorkSteps ==
    /\ (pc = "idle" /\ pc' # "idle" /\ discoveredSkills' = <<>>)
          => (outcome' = "no skills found")
    /\ (outcome # "no skills found" /\ outcome' = "no skills found")
          => (pc = "idle" /\ localLock' = createEmptyLocalLock)
    /\ (outcome # "up to date" /\ outcome' = "up to date")
          => (pc = "partition")
    /\ (pc = "partition" /\ pc' # "partition" /\ toInstall' = <<>>)
          => (outcome' \in {"up to date", "rejected"})

\* C17: a run whose discovery returns no skill ends at once as "no skills
\* found", the lock not read; a run that discovered skills and has none to
\* install after step 2 ends as "up to date"; no other run ends in one of
\* these two ways, and a run that has ended in one of them has selected no
\* agent, installed nothing and left the lock file as it was.
C17_NoWorkOutcomes == []NoWorkDone /\ []WorkAhead /\ [][NoWorkSteps]_vars

\* Two skills were discovered, the lock file holds the digest of both, and
\* the run has ended as "up to date".
C17_Witness ==
    /\ pc = "finished"
    /\ outcome = "up to date"
    /\ Len(discoveredSkills) = 2
    /\ Len(upToDate) = 2
    /\ lockFile.exists

\* C18: a run that is at the summary and confirmation, at the install step
\* or at the lock update, or that has ended with its report, has at least
\* one target agent.
C18_TargetsNonEmpty ==
    (\/ pc \in {"confirm", "install", "updateLock"}
     \/ (pc = "finished" /\ outcome = "done"))
        => targetAgents # <<>>

\* The caller gave a name that is neither an agent nor the wildcard.
InvalidAgentGiven ==
    \E i \in 1..Len(options.agent) :
        options.agent[i] \notin SeqToSet(ValidAgents) \cup {"*"}

\* C19: a run that was given an agent name that is not valid calls no
\* installer and writes no lock file, does not get past the selection of
\* the agents, and ends as "invalid agents" unless it ended before the
\* selection for want of skills to install.
C19_InvalidAgentHalts ==
    InvalidAgentGiven =>
        /\ results = <<>>
        /\ lockFile = lockAtStart
        /\ pc \notin {"confirm", "install", "updateLock"}
        /\ pc = "finished" =>
              outcome \in {"invalid agents", "no skills found", "up to date", "rejected"}

\* '*' is one of the agent names given.
StarGiven == \E i \in 1..Len(options.agent) : options.agent[i] = "*"

\* With '*' among the names given the run never ends for an invalid name,
\* and past the selection its targets are all the valid agents.
WildcardSelectsAll ==
    StarGiven =>
        /\ outcome # "invalid agents"
        /\ (pc \in {"confirm", "install", "updateLock"} \/ (pc = "finished" /\ outcome = "done"))
              => targetAgents = ValidAgents

\* A run ends for an invalid name only at the selection of the agents, with
\* something to install.
ValidatedAtSelection ==
    /\ outcome = "invalid agents" =>
          (InvalidAgentGiven /\ discoveredSkills # <<>> /\ toInstall # <<>> /\ results = <<>>)
    /\ (pc = "finished" /\ InvalidAgentGiven /\ discoveredSkills = <<>>)
          => outcome = "no skills found"
    /\ (pc = "finished" /\ InvalidAgentGiven /\ discoveredSkills # <<>> /\ toInstall = <<>>)
          => outcome \in {"up to date", "rejected"}

EndsInvalidAtSelection ==
    (outcome # "invalid agents" /\ outcome' = "invalid agents") => pc = "selectAgents"

\* C34: with '*' among the agent names given, the targets are all the valid
\* agents and an invalid name beside it does not end the run; the names are
\* looked at only when the run selects its agents, so a run given an
\* invalid name that discovers nothing or has nothing to install ends as
\* "no skills found" or "up to date".
C34_WildcardAndLateValidation ==
    []WildcardSelectsAll /\ []ValidatedAtSelection /\ [][EndsInvalidAtSelection]_vars

\* A run given '*' and an invalid name has installed for every valid agent
\* and ended with its report.
C34_Witness ==
    /\ pc = "finished"
    /\ outcome = "done"
    /\ StarGiven
    /\ InvalidAgentGiven
    /\ targetAgents = ValidAgents
    /\ results # <<>>

\* After a throw in step 6 the run is still in step 6 or has ended with its
\* report.
FailureSwallowed == lockFailures # {} => InstallsOver

\* Step 6 takes the skills of toInstall one after the other, whatever the
\* turns before did, and the report follows the last.
EveryTurnTaken ==
    pc = "updateLock" =>
        \/ idx <= Len(toInstall) /\ idx' = idx + 1 /\ pc' = "updateLock"
        \/ idx > Len(toInstall) /\ pc' = "finished" /\ outcome' = "done"

\* After the report every installed skill of toInstall has a throw under
\* its name or an entry under its name that step 6 wrote.
AllAttempted ==
    (pc = "finished" /\ outcome = "done") =>
        \A i \in 1..Len(toInstall) :
            ShouldRecord(results, toInstall[i]) =>
                \/ toInstall[i].name \in lockFailures
                \/ \E j \in 1..Len(toInstall) :
                      /\ toInstall[j].name = toInstall[i].name
                      /\ \E d \in FolderDigests(folders[toInstall[j].path].tree) :
                            EntryUnder(lockFile, toInstall[i].name)
                                = <<LockEntryFor(toInstall[j], d)>>

\* C20: a throw of computeSkillFolderHash or addSkillToLocalLock in step 6
\* does not end the run: the turns for the skills that follow are taken,
\* their entries written, and the run ends with its report.
C20_LockFailureSwallowed == []FailureSwallowed /\ []AllAttempted /\ [][EveryTurnTaken]_vars

\* The update of the first skill threw, the entry of the second was
\* written after it, and the run has ended with its report.
C20_Witness ==
    /\ pc = "finished"
    /\ outcome = "done"
    /\ Len(toInstall) = 2
    /\ toInstall[1].name \in lockFailures
    /\ toInstall[2].name \notin lockFailures
    /\ EntryUnder(lockAtStart, toInstall[2].name) = <<>>
    /\ EntryUnder(lockFile, toInstall[2].name) # <<>>

\* C21: a folder that computeSkillFolderHash cannot read does not end the
\* run: no run is rejected, in step 2 as in step 6 the skills that follow
\* are dealt with.
C21_HashFailureContained ==
    /\ outcome # "rejected"
    /\ (pc = "finished" /\ outcome \in {"up to date", "done"} /\ ~options.force)
          => Len(upToDate) + Len(toInstall) = Len(discoveredSkills)

\* What the lock file held when the run started, by the text of the file.
SnapshotAtStart ==
    IF IsValidLockFile(lockAtStart)
    THEN LockIn(lockAtStart)
    ELSE AsMap(createEmptyLocalLock)

\* From step 2 on localLock is what the file held when the run started,
\* also after step 6 has written the file.
SnapshotKept ==
    (\/ pc \in {"partition", "selectAgents", "confirm", "install", "updateLock"}
     \/ (pc = "finished" /\ outcome # "no skills found"))
        => AsMap(localLock) = SnapshotAtStart

\* The lock file is as the run found it until step 5 is over.
NoWriteBeforeStep6 ==
    pc \in {"readLock", "partition", "selectAgents", "confirm", "install"}
        => lockFile = lockAtStart

\* Once step 2 is over, the partition stays as it is.
PartitionFixed ==
    (pc \in {"selectAgents", "confirm", "install", "updateLock"})
        => (toInstall' = toInstall /\ upToDate' = upToDate /\ localLock' = localLock)

\* C22: step 2 classifies against the lock as the file held it when the run
\* started, read once; the lock file is not written before step 2 is over,
\* and what step 6 writes changes neither the snapshot nor the partition.
C22_SnapshotPartition == []SnapshotKept /\ []NoWriteBeforeStep6 /\ [][PartitionFixed]_vars

\* Step 6 has written the lock file, which no longer reads as the snapshot
\* the run classified against.
C22_Witness ==
    /\ pc = "updateLock"
    /\ lockFile # lockAtStart
    /\ AsMap(readLocalLock(lockFile)) # AsMap(localLock)
    /\ Len(upToDate) = 1
    /\ localLock.skills # <<>>

\* Every installSkillForAgent call of the run has returned.
AllInstallsSettled ==
    /\ Len(results) = Len(toInstall) * Len(targetAgents)
    /\ \A i \in 1..Len(toInstall), j \in 1..Len(targetAgents) :
          LET r == results[(i - 1) * Len(targetAgents) + j]
          IN  r.skill = toInstall[i].name /\ r.agent = targetAgents[j]

\* A lock file that the run has written was written after the installs.
WrittenAfterInstalls == (pc # "idle" /\ lockFile # lockAtStart) => AllInstallsSettled

\* A step that writes the lock file is a step of step 6, taken when every
\* install has returned, and step 6 installs nothing.
WriteStepAfterInstalls ==
    /\ lockFile' # lockFile => (pc = "updateLock" /\ AllInstallsSettled)
    /\ pc = "updateLock" => results' = results \/ pc' = "idle"

\* C23: the lock file is written, and the digest of a skill computed for
\* it, only when every installSkillForAgent call of the run, for every
\* skill and agent, has returned; no install follows a write.
C23_WriteAfterInstalls == []WrittenAfterInstalls /\ [][WriteStepAfterInstalls]_vars

\* Two skills were installed for two agents each and step 6 has written
\* the lock file.
C23_Witness ==
    /\ pc = "updateLock"
    /\ lockFile # lockAtStart
    /\ Len(toInstall) = 2
    /\ Len(targetAgents) = 2
    /\ Len(results) = 4

\* C27: the report of a run counts as synced the distinct names of the
\* skills with a successful install, and as failed the installs that
\* failed, whatever the successes and failures were.
C27_ReportCounts ==
    (pc = "finished" /\ outcome = "done") =>
        /\ report.shown
        /\ report.synced = Cardinality({ results[k].skill : k \in { m \in 1..Len(results) : results[m].success } })
        /\ report.failed = Cardinality({ k \in 1..Len(results) : ~results[k].success })
        /\ report.synced + report.failed <= Len(results)
        /\ report.successCount = report.synced

\* A skill was installed for two agents, another failed for both.
C27_Witness ==
    /\ pc = "finished"
    /\ outcome = "done"
    /\ Len(results) = 4
    /\ report.synced = 1
    /\ report.failed = 2

\* The names under "skills" of a lock file, as JSON.parse gives them.
NamesIn(file) ==
    IF ~file.exists THEN {}
    ELSE LET parsed == JSONParse(file.text) IN
         IF parsed.ok /\ parsed.value.skillsKind = "object"
         THEN { parsed.value.skills[i].name : i \in 1..Len(parsed.value.skills) }
         ELSE {}

\* C28: a run never deletes the lock file and never removes an entry from
\* it: every name the file held when the run started it holds when the run
\* has ended.
C28_NoEntryRemoved ==
    (pc = "finished" /\ lockAtStart.exists) =>
        /\ lockFile.exists
        /\ NamesIn(lockAtStart) \subseteq NamesIn(lockFile)

\* One copy of an empty lock: no file yet, or a file of a supported version
\* without entries.
IsEmptyCopy(file) ==
    \/ ~file.exists
    \/ (IsValidLockFile(file) /\ NamesIn(file) = {})

\* The file holds one entry, under the name given, of the three fields
\* source, sourceType and computedHash.
HoldsOnly(file, name) ==
    /\ file.exists
    /\ EntryNames(file.text) = <<name>>
    /\ NamesIn(file) = {name}
    /\ \A i \in 1..Len(file.text) :
          file.text[i].t = "entry" =>
              DOMAIN file.text[i].entry = {"source", "sourceType", "computedHash"}

\* C29: addSkillToLocalLock(A, ...) on one copy of an empty lock and
\* addSkillToLocalLock(B, ...), B another name, on another copy leave two
\* files whose keys under "skills" are {A} and {B}, each entry of the three
\* fields source, sourceType and computedHash.
C29_MergeFriendly ==
    [][(lastCall' = "addSkillToLocalLock" /\ IsEmptyCopy(lockFile)) =>
         /\ HoldsOnly(lockFile', ret'.skillName)
         /\ \A B \in SkillNameUniverse \ {ret'.skillName}, e \in SampleEntries :
               /\ HoldsOnly(addSkillToLocalLock(lockFile, B, e), B)
               /\ NamesIn(addSkillToLocalLock(lockFile, B, e)) \cap NamesIn(lockFile') = {}]_vars

\* A file is there and readLocalLock does not accept it: it does not parse,
\* lacks a numeric version or a skills object, or is of an older version.
IsRejectedFile(file) == file.exists /\ ~IsValidLockFile(file)

\* C33: on a file that readLocalLock does not accept, addSkillToLocalLock
\* leaves a file of the current version with the added entry and nothing
\* else, and removeSkillFromLocalLock returns false and leaves the file as
\* it was.
C33_RejectedFileReplaced ==
    [][IsRejectedFile(lockFile) =>
         /\ lastCall' = "addSkillToLocalLock" =>
               /\ IsValidLockFile(lockFile')
               /\ LockIn(lockFile').version = CURRENT_VERSION
               /\ NamesIn(lockFile') = {ret'.skillName}
               /\ EntryNames(lockFile'.text) = <<ret'.skillName>>
               /\ LockIn(lockFile').skills[ret'.skillName] = ret'.entry
         /\ lastCall' = "removeSkillFromLocalLock" =>
               /\ ret'.returns = FALSE
               /\ lockFile' = lockFile]_vars

(***************************************************************************)
(* Properties of two calls in flight (SpecConcurrent)                      *)
(***************************************************************************)
\* Both calls have written, and they added different names.
BothAdded ==
    /\ \A p \in Callers : ops[p].pc = "written"
    /\ ops[1].skillName # ops[2].skillName

\* Both calls read the file before either wrote it.
BothReadFirst == Len(log) = 4 /\ log[1].step = "read" /\ log[2].step = "read"

\* One call returned before the other was made.
OneAfterTheOther == Len(log) = 4 /\ log[2].step = "write"

\* The file holds the entry that caller p added.
HoldsAdded(file, p) ==
    /\ IsValidLockFile(file)
    /\ ops[p].skillName \in NamesIn(file)
    /\ LockIn(file).skills[ops[p].skillName] = ops[p].entry

\* C31: of two addSkillToLocalLock calls for different names, neither in
\* the file before, that both read the file before either writes it, the
\* file ends with the entry of the call that wrote last and without the
\* other's; of two calls made one after the other it ends with both.
C31_LostUpdate ==
    BothAdded =>
        /\ (BothReadFirst /\ \A p \in Callers : ops[p].skillName \notin NamesIn(log[1].file)) =>
               /\ HoldsAdded(lockFile, log[4].caller)
               /\ \A p \in Callers \ {log[4].caller} : ops[p].skillName \notin NamesIn(lockFile)
        /\ OneAfterTheOther => \A p \in Callers : HoldsAdded(lockFile, p)

(***************************************************************************)
(* Properties of discovery (SpecDiscover)                                  *)
(***************************************************************************)
Listable(nm, dir) == IsDirectory(nm, dir) /\ dir \notin nm.unreadable

Children(nm, dir) == { l[Len(dir) + 1] : l \in { m \in nm.leaves : IsPrefix(dir, m) } }

\* The package directories under a node_modules that can be listed: the
\* directories at its top that are neither hidden nor scopes, and the
\* directories in the scopes that can be listed.
PackageDirs(nm) ==
    IF ~Listable(nm, <<>>) THEN {}
    ELSE { <<n>> : n \in { m \in Children(nm, <<>>) :
                             m[1] \notin {46, 64} /\ IsDirectory(nm, <<m>>) } }
         \cup UNION { { <<n, c>> : c \in { e \in Children(nm, <<n>>) :
                                            IsDirectory(nm, <<n, e>>) } } :
                      n \in { m \in Children(nm, <<>>) :
                                m[1] = 64 /\ Listable(nm, <<m>>) } }

\* The conventional locations of a package.
Locations(pkgDir) ==
    { pkgDir, pkgDir \o <<SkillsDir>>, pkgDir \o <<AgentsDir, SkillsDir>> }

HasManifest(nm, dir) == IsDirectory(nm, dir) /\ Append(dir, SkillMd) \in nm.leaves

\* The folders a package contributes.
ArtifactDirs(nm, pkgDir) ==
    IF HasManifest(nm, pkgDir) THEN { pkgDir }
    ELSE UNION { { Append(loc, c) : c \in { e \in Children(nm, loc) :
                                              HasManifest(nm, Append(loc, e)) } } :
                 loc \in { l \in Locations(pkgDir) : Listable(nm, l) } }

\* The indices of the skills reported from under a directory.
ReportedUnder(dir) == { i \in 1..Len(skillsFound) : IsPrefix(dir, skillsFound[i].path) }

\* C24: of a package with a SKILL.md at its root discovery reports that one
\* skill and nothing from below it; of any other package it reports, once
\* each, the child directories of the package directory, of skills and of
\* .agents/skills that hold a SKILL.md, and nothing else.
C24_PackageArtifacts ==
    dpc = "returned" =>
        \A pkgDir \in PackageDirs(nodeModules) :
            /\ { skillsFound[i].path : i \in ReportedUnder(pkgDir) }
                 = ArtifactDirs(nodeModules, pkgDir)
            /\ Cardinality(ReportedUnder(pkgDir)) = Cardinality(ArtifactDirs(nodeModules, pkgDir))
            /\ HasManifest(nodeModules, pkgDir) => Cardinality(ReportedUnder(pkgDir)) = 1

\* A package was found to hold two skills under skills, next to a file and
\* a directory without a SKILL.md of its own.
C24_Witness ==
    /\ dpc = "returned"
    /\ Len(skillsFound) = 2
    /\ skillsFound[1].packageName = PkgP
    /\ skillsFound[2].packageName = PkgP
    /\ <<PkgP, SkillsDir, NameF>> \in nodeModules.leaves

\* The package directory a reported folder lies in, by its path.
OwningPackageDir(path) == IF path[1][1] = 64 THEN SubSeq(path, 1, 2) ELSE SubSeq(path, 1, 1)

\* C25: every reported skill lies under a directory at the top of
\* node_modules that is not hidden, or under a directory of a scope, and
\* carries as packageName the name of that directory, with the scope and a
\* slash before it for a directory of a scope; every such directory that
\* holds a skill is reported under its name.
C25_PackageNames ==
    dpc = "returned" =>
        /\ \A i \in 1..Len(skillsFound) :
             LET path == skillsFound[i].path IN
             /\ path[1][1] # 46
             /\ path[1][1] = 64 => Len(path) >= 2
             /\ OwningPackageDir(path) \in PackageDirs(nodeModules)
             /\ skillsFound[i].packageName = JoinSlash(OwningPackageDir(path))
        /\ \A pkgDir \in PackageDirs(nodeModules) :
             ArtifactDirs(nodeModules, pkgDir) # {} =>
                \E i \in 1..Len(skillsFound) : skillsFound[i].packageName = JoinSlash(pkgDir)

\* A package of a scope and a package at the top were both reported, a
\* hidden directory and a file at the top being skipped.
C25_Witness ==
    /\ dpc = "returned"
    /\ \E i \in 1..Len(skillsFound) : skillsFound[i].packageName = JoinSlash(<<ScopeS, NameC>>)
    /\ \E l \in nodeModules.leaves : l[1] \in {HiddenB, NameF}
    /\ Len(skillsFound) = 2

\* C26: discovery never rejects; without a node_modules that can be listed
\* it returns nothing; a directory that cannot be listed contributes
\* nothing of what lies directly in it, and every package that neither
\* holds that directory nor lies in it is reported in full.
C26_BestEffort ==
    /\ dpc # "rejected"
    /\ dpc = "returned" =>
         /\ ~Listable(nodeModules, <<>>) => skillsFound = <<>>
         /\ \A u \in nodeModules.unreadable :
              /\ \A i \in 1..Len(skillsFound) :
                   LET path == skillsFound[i].path IN
                   SubSeq(path, 1, Len(path) - 1) = u => path \in PackageDirs(nodeModules)
              /\ \A pkgDir \in PackageDirs(nodeModules) :
                   (~IsPrefix(pkgDir, u) /\ ~IsPrefix(u, pkgDir)) =>
                      \A d \in ArtifactDirs(nodeModules, pkgDir) :
                         \E i \in 1..Len(skillsFound) : skillsFound[i].path = d

\* The skills directory of one package could not be listed, and the skill
\* of another package was returned.
C26_Witness ==
    /\ dpc = "returned"
    /\ nodeModules.unreadable = { <<PkgP, SkillsDir>> }
    /\ \E l \in nodeModules.leaves : IsPrefix(<<PkgP, SkillsDir>>, l) /\ l[Len(l)] = SkillMd
    /\ Len(skillsFound) = 1
    /\ skillsFound[1].packageName = PkgQ

\* What discovery is to return for a node_modules, as a set.
AllArtifacts(nm) ==
    UNION { { [name |-> d[Len(d)], path |-> d, packageName |-> JoinSlash(pkgDir)] :
                d \in ArtifactDirs(nm, pkgDir) } :
            pkgDir \in PackageDirs(nm) }

\* C30: whatever the order in which the async functions of the fan-out
\* run, no folder is reported twice, and the skills returned are, as a set,
\* the same function of the node_modules directory.
C30_InterleavingFree ==
    /\ \A i, j \in 1..Len(skillsFound) :
         skillsFound[i].path = skillsFound[j].path => i = j
    /\ dpc = "returned" => SeqToSet(skillsFound) = AllArtifacts(nodeModules)

\* The skill of package q was pushed before the one of package p and the
\* one of the scoped package.
C30_Witness ==
    /\ dpc = "returned"
    /\ Len(skillsFound) = 3
    /\ skillsFound[1].packageName = PkgQ
    /\ skillsFound[2].packageName = PkgP
    /\ skillsFound[3].packageName = JoinSlash(<<ScopeS, NameC>>)

(***************************************************************************)
(* Properties of runInstallFromLock (SpecInstall)                          *)
(***************************************************************************)
\* The entry the lock file holds under a name.
EntryIn(file, name) == LockIn(file).skills[name]

\* The names in the file whose entries are not of node_modules, and those
\* whose entries are.
RemoteNames == { n \in NamesIn(lockFile) : EntryIn(lockFile, n).sourceType # "node_modules" }

NodeModuleNames == { n \in NamesIn(lockFile) : EntryIn(lockFile, n).sourceType = "node_modules" }

AddCalls == { k \in 1..Len(calls) : calls[k].fn = "runAdd" }

SyncCalls == { k \in 1..Len(calls) : calls[k].fn = "runSync" }

NamesPassed(k) == { calls[k].skill[i] : i \in 1..Len(calls[k].skill) }

\* C32: when runInstallFromLock has returned, there is one runAdd call for
\* every source of an entry that is not of node_modules, it carries the
\* names recorded under that source, each once, and no other name; there
\* is one runSync call if some entry is of node_modules and none
\* otherwise, made after every runAdd call; this whatever calls threw; and
\* with an empty lock no call is made.
C32_DispatchOnce ==
    ipc = "returned" =>
        /\ \A n \in RemoteNames :
              Cardinality({ k \in AddCalls : n \in NamesPassed(k) }) = 1
        /\ \A k \in AddCalls :
              /\ NamesPassed(k) = { n \in RemoteNames : EntryIn(lockFile, n).source = calls[k].source }
              /\ Len(calls[k].skill) = Cardinality(NamesPassed(k))
              /\ NamesPassed(k) # {}
        /\ \A k, m \in AddCalls : calls[k].source = calls[m].source => k = m
        /\ Cardinality(SyncCalls) = IF NodeModuleNames = {} THEN 0 ELSE 1
        /\ \A k \in SyncCalls : k = Len(calls)
        /\ NamesIn(lockFile) = {} => calls = <<>>

\* Two entries of one source and one of node_modules: the runAdd call threw,
\* and runSync was called after it.
C32_Witness ==
    /\ ipc = "returned"
    /\ Len(calls) = 2
    /\ calls[1].fn = "runAdd"
    /\ calls[1].threw
    /\ Len(calls[1].skill) = 2
    /\ calls[2].fn = "runSync"
    /\ Cardinality(NamesIn(lockFile)) = 3

====
